---- MODULE Spec2Model ----
(***************************************************************************)
(* Model of the fixed-timestep loops (engine GameLoop, systems GameLoop,   *)
(* Timer), the Quadtree, the AABB CollisionSystem with its collision       *)
(* groups and the EntityManager of space-invaders-js.                      *)
(*                                                                         *)
(* Time is counted in units of 1/120 s, the largest unit in which every    *)
(* timing constant of the three loops is a whole number:                   *)
(*   1000/60 ms = 2, 1000/30 ms = 4, 1000/120 ms = 1, 100 ms = 12.         *)
(***************************************************************************)
EXTENDS Integers, Sequences, FiniteSets, TLC

(***************************************************************************)
(* Program constants                                                       *)
(***************************************************************************)
FRAME_TIME == 2
MAX_UPDATES_PER_FRAME == 10
fixedTimeStep == 2
SYS_maxDeltaTime == 12
DEFAULT_FIXED_TIMESTEP == 2
MAX_DELTA_TIME == 4
MIN_DELTA_TIME == 1
MAX_OBJECTS == 10
MAX_LEVELS == 5
MIN_SIZE == 16
TARGET_FRAME_TIME == 16   \* EntityManager, in ms
batchSize == 100

(***************************************************************************)
(* Bounds of the model                                                     *)
(***************************************************************************)
MaxElapse == 24
MaxThrowAt == 2
MaxThrown == 3
MaxShortfall == 6
LongMaxDelta == 24
MaxInserts == 12
MaxOrphans == 2
MaxStallSteps == 2
MaxCoord == 2
MaxEntries == 1
MaxMembers == 4
MaxDim == 2
MaxWaves == 3
MaxEnemies == 2
MaxPoolSize == 2
MaxObjects == 3
MaxScore == 3
MaxPoints == 2
MaxHistory == 3

Impls == {"engine", "systems", "timer"}

Min(a, b) == IF a < b THEN a ELSE b
Max(a, b) == IF a > b THEN a ELSE b

VARIABLES
    impl,          \* which loop class the instance under test is
    sinceLast,     \* performance.now() - lastTime: the age of the lastTime field
    accumulator,   \* accumulator field
    running,       \* engine running / systems isRunning
    isPaused,      \* Timer isPaused
    rafId,         \* "null" or "handle": rafId / animationFrameId holds a handle
    rafPending,    \* the host still holds the frame request named by rafId
    maxDeltaTime,  \* Timer maxDeltaTime (constructor configuration)
    op,            \* the operation that produced this state
    startResult,   \* outcome of the last start(): "ok", "noop", "error"
    frame,         \* what the last frame callback did
    faulted,       \* a callback threw and start() has not been called since
    balance,       \* simulated time (fixed-update invocations times the step)
                   \* minus the time added to the accumulator, so far
    totalThrown,   \* fixed-update invocations that threw so far
    orphans,       \* frame requests the host still holds that rafId no longer
                   \* names (a later request overwrote the handle)
    stops,         \* stop() calls returned since the last start(), pause(),
                   \* resume() or frame callback (counted up to 2)
    halted         \* stop() has returned and start() has not succeeded since

VARIABLES
    tree,          \* the root Quadtree node
    items,         \* index in Boxes of every object inserted since the last clear
    insertThrew,   \* the last insert() ended with an exception
    query,         \* index in Boxes of the last retrieve() argument, 0 if none
    retrieved,     \* what the last retrieve() returned
    cleared        \* clear() has been called on the tree

VARIABLES
    boxA, boxB,    \* arguments of checkCollision
    result         \* {} before the call, then {what checkCollision returned}

loopVars == <<impl, sinceLast, accumulator, running, isPaused, rafId,
              rafPending, maxDeltaTime, op, startResult, frame, faulted,
              balance, totalThrown, orphans, stops, halted>>

treeVars == <<tree, items, insertThrew, query, retrieved, cleared>>

collisionVars == <<boxA, boxB, result>>

VARIABLES
    entities,      \* EntityManager.entities in insertion order: [id, isActive]
    quadTree,      \* entries held by EntityManager.quadTree, per identifier
    lastFrameTime, \* duration of the last update() in ms
    emOp,          \* the last EntityManager operation
    invoked,       \* update steps invoked by the last update(), in order
    atStart,       \* entities when the last update() began
    entriesBefore  \* quadTree when the last update() began

VARIABLES
    collisionGroups, \* CollisionSystem.collisionGroups: group id -> members
                     \* in insertion order, as indices in GroupBoxes
    groupOp,         \* the last collision-group operation
    groupArgs,       \* <<groupA, groupB>> of the last checkGroupCollisions
    groupResult,     \* what the last checkGroupCollisions returned
    groupThrew       \* the last checkGroupCollisions ended with an exception

entityVars == <<entities, quadTree, lastFrameTime, emOp,
                invoked, atStart, entriesBefore>>

groupVars == <<collisionGroups, groupOp, groupArgs, groupResult, groupThrew>>

VARIABLES
    waveImpl,        \* which WaveManager class the instance under test is
    waveConfigs,     \* systems WaveManager.waveConfigs: wave number -> enemyCount
    state,           \* systems WaveManager.state, but for startTime
    onWaveComplete,  \* what the registered completion callback does:
                     \* "none" if there is none, "returns", or "stops" if it
                     \* calls stop()
    spawnTimer,      \* enemyCount of the configuration the pending spawn timer
                     \* captured, NoTimer if no timer is pending
    spawner,         \* behaviors WaveManager: currentWave, isSpawning, the
                     \* number of enemies held and the position of spawnWave
    waveCall         \* the last WaveManager call and what it found

VARIABLES
    pool,            \* ObjectPool.pool
    config,          \* ObjectPool.config
    held,            \* objects acquired from the pool and not released since
    made,            \* number of objects the factory has made for the pool
    poolCall         \* the last ObjectPool call and what it found

VARIABLES
    currentScore,    \* ScoreManager.currentScore
    scoreHistory,    \* ScoreManager.scoreHistory: the points of every entry
    scoreConfig,     \* ScoreManager.config: initialScore, minScore, maxScore
    scoreCall        \* the last ScoreManager call and what it found

scoreVars == <<currentScore, scoreHistory, scoreConfig, scoreCall>>

waveVars == <<waveImpl, waveConfigs, state, onWaveComplete, spawnTimer,
              spawner, waveCall>>

poolVars == <<pool, config, held, made, poolCall>>

vars == <<loopVars, treeVars, collisionVars, entityVars, groupVars,
          waveVars, poolVars, scoreVars>>

\* What the operations of one component leave alone.
exceptLoop == <<treeVars, collisionVars, entityVars, groupVars, waveVars,
                poolVars, scoreVars>>
exceptTree == <<loopVars, collisionVars, entityVars, groupVars, waveVars,
                poolVars, scoreVars>>
exceptCollision == <<loopVars, treeVars, entityVars, groupVars, waveVars,
                     poolVars, scoreVars>>
exceptEntities == <<loopVars, treeVars, collisionVars, groupVars, waveVars,
                    poolVars, scoreVars>>
exceptGroups == <<loopVars, treeVars, collisionVars, entityVars, waveVars,
                  poolVars, scoreVars>>
exceptWaves == <<loopVars, treeVars, collisionVars, entityVars, groupVars,
                 poolVars, scoreVars>>
exceptScore == <<loopVars, treeVars, collisionVars, entityVars, groupVars,
                waveVars, poolVars>>
exceptPool == <<loopVars, treeVars, collisionVars, entityVars, groupVars,
                waveVars, scoreVars>>

NoFrame == [calls |-> 0, updates |-> 0, variable |-> 0, threw |-> "none",
            after |-> 0, rendered |-> FALSE, alpha |-> <<0, 1>>, panics |-> 0,
            capped |-> FALSE, added |-> 0, skipped |-> TRUE,
            afterStop |-> 0, nested |-> 0]

\* The frame requests the host holds for this loop.
Pending == (IF rafPending THEN 1 ELSE 0) + orphans

\* Callbacks invoked by a frame that began after stop() had returned.
AfterStop(wasHalted, variable, calls, renders) ==
    IF wasHalted THEN variable + calls + renders ELSE 0

\* One more stop() call in a row.
OneMoreStop(n) == Min(n + 1, 2)

(***************************************************************************)
(* Host: the clock advances between events.                                *)
(***************************************************************************)
Elapse(d) ==
    /\ sinceLast + d <= MaxElapse
    /\ sinceLast' = sinceLast + d
    /\ op' = "elapse"
    /\ startResult' = "none"
    /\ frame' = NoFrame
    /\ UNCHANGED <<exceptLoop, impl, accumulator, running, isPaused, rafId, rafPending,
                   maxDeltaTime, faulted, balance, totalThrown, orphans,
                   stops, halted>>

\* The clock advances by whole fixed steps from the last frame or start().
ElapseSteps(n) ==
    /\ sinceLast = 0
    /\ Elapse(n * FRAME_TIME)

\* Number of callbacks a frame invoked after a callback had thrown: every
\* callback of the frame when the fault is older than the frame, else those
\* that followed the first throw of the frame.
AfterThrow(wasFaulted, variable, calls, throwAt, renders) ==
    IF wasFaulted THEN variable + calls + renders
    ELSE IF throwAt \in 1..calls THEN (calls - throwAt) + renders
    ELSE 0

\* Bookkeeping of a frame that made `calls` fixed-update invocations of
\* `step` each, `thrown` of which threw, after adding `added` to the
\* accumulator.
Account(step, calls, added, thrown) ==
    /\ balance + step * calls - added >= 0 - MaxShortfall
    /\ totalThrown + thrown <= MaxThrown
    /\ balance' = balance + step * calls - added
    /\ totalThrown' = totalThrown + thrown

(***************************************************************************)
(* engine/GameLoop.ts                                                      *)
(***************************************************************************)
\* Mutant of EngineDrain: a step is simulated for any time left over.
RECURSIVE EngineDrainPartialStep(_, _, _)
EngineDrainPartialStep(acc, updates, throwAt) ==
    IF acc > 0 /\ updates < MAX_UPDATES_PER_FRAME
    THEN IF throwAt = updates + 1
         THEN [acc |-> acc, updates |-> updates, calls |-> updates + 1,
               threw |-> TRUE]
         ELSE EngineDrainPartialStep(acc - FRAME_TIME, updates + 1, throwAt)
    ELSE [acc |-> acc, updates |-> updates, calls |-> updates, threw |-> FALSE]

\* while (accumulator >= frameTime && updates < MAX_UPDATES_PER_FRAME)
\*   try { update(frameTime); accumulator -= frameTime; updates++ }
\*   catch { stop(); return }
\* throwAt = k > 0: the k-th invocation of the update callback throws.
RECURSIVE EngineDrain(_, _, _)
EngineDrain(acc, updates, throwAt) ==
    IF acc >= FRAME_TIME /\ updates < MAX_UPDATES_PER_FRAME
    THEN IF throwAt = updates + 1
         THEN [acc |-> acc, updates |-> updates, calls |-> updates + 1,
               threw |-> TRUE]
         ELSE EngineDrain(acc - FRAME_TIME, updates + 1, throwAt)
    ELSE [acc |-> acc, updates |-> updates, calls |-> updates, threw |-> FALSE]

\* Mutant of EnginePanic: the panic is notified but the backlog is kept.
EnginePanicKeepsBacklog(acc, updates) ==
    IF updates >= MAX_UPDATES_PER_FRAME
    THEN [acc |-> acc, panics |-> 1]
    ELSE [acc |-> acc, panics |-> 0]

\* if (updates >= MAX_UPDATES_PER_FRAME) { handlePanic(); accumulator = 0 }
EnginePanic(acc, updates) ==
    IF updates >= MAX_UPDATES_PER_FRAME
    THEN [acc |-> 0, panics |-> 1]
    ELSE [acc |-> acc, panics |-> 0]

\* interpolation = accumulator / frameTime, kept as <<numerator, denominator>>
EngineInterpolation(acc) == <<acc, FRAME_TIME>>

\* start(): if (running) return; running = true; lastTime = now; rafId = rAF
EngineStartFields(isRunning, since) ==
    IF isRunning
    THEN [result |-> "noop", running |-> TRUE, sinceLast |-> since,
          requested |-> FALSE]
    ELSE [result |-> "ok", running |-> TRUE, sinceLast |-> 0,
          requested |-> TRUE]

EngineStart ==
    /\ impl = "engine"
    /\ op' = "start"
    /\ frame' = NoFrame
    /\ LET s == EngineStartFields(running, sinceLast)
       IN  /\ startResult' = s.result
           /\ running' = s.running
           /\ sinceLast' = s.sinceLast
           /\ rafId' = IF s.requested THEN "handle" ELSE rafId
           /\ rafPending' = (s.requested \/ rafPending)
           /\ orphans' = orphans + (IF s.requested /\ rafPending THEN 1 ELSE 0)
           /\ orphans' <= MaxOrphans
           /\ faulted' = (faulted /\ ~s.requested)
           /\ halted' = (halted /\ ~s.requested)
    /\ stops' = 0
    /\ UNCHANGED <<exceptLoop, impl, accumulator, isPaused, maxDeltaTime, balance,
                   totalThrown>>

EngineStop ==
    /\ impl = "engine"
    /\ op' = "stop"
    /\ frame' = NoFrame
    /\ startResult' = "none"
    /\ IF ~running
       THEN UNCHANGED <<running, rafPending>>
       ELSE /\ running' = FALSE
            /\ rafPending' = FALSE
    /\ stops' = OneMoreStop(stops)
    /\ halted' = TRUE
    /\ UNCHANGED <<exceptLoop, impl, sinceLast, accumulator, isPaused, rafId, maxDeltaTime,
                   faulted, balance, totalThrown, orphans>>

\* The frame callback requested by start() or by the previous frame fires.
EngineLoop(throwAt, renderThrows) ==
    /\ impl = "engine"
    /\ rafPending
    /\ op' = "frame"
    /\ startResult' = "none"
    /\ IF ~running
       THEN /\ rafPending' = FALSE
            /\ frame' = NoFrame
            /\ UNCHANGED <<sinceLast, accumulator, running, faulted, balance,
                           totalThrown, halted>>
       ELSE LET deltaTime == sinceLast
                d == EngineDrain(accumulator + deltaTime, 0, throwAt)
                p == EnginePanic(d.acc, d.updates)
                rthrow == ~d.threw /\ renderThrows
                renders == IF d.threw THEN 0 ELSE 1
            IN  /\ Account(FRAME_TIME, d.calls, deltaTime,
                           IF d.threw THEN 1 ELSE 0)
                /\ sinceLast' = 0
                /\ accumulator' = IF d.threw THEN d.acc ELSE p.acc
                /\ running' = ~(d.threw \/ rthrow)
                /\ rafPending' = ~(d.threw \/ rthrow)
                /\ faulted' = (faulted \/ d.threw \/ rthrow)
                /\ halted' = (halted \/ d.threw \/ rthrow)
                /\ frame' = [calls |-> d.calls, updates |-> d.updates,
                             variable |-> 0,
                             threw |-> IF d.threw THEN "update"
                                       ELSE IF rthrow THEN "render" ELSE "none",
                             after |-> AfterThrow(faulted, 0, d.calls, throwAt,
                                                  renders),
                             rendered |-> ~d.threw,
                             alpha |-> IF d.threw THEN <<0, 1>>
                                       ELSE EngineInterpolation(p.acc),
                             panics |-> IF d.threw THEN 0 ELSE p.panics,
                             capped |-> d.updates >= MAX_UPDATES_PER_FRAME,
                             added |-> deltaTime, skipped |-> FALSE,
                             afterStop |-> AfterStop(halted, 0, d.calls,
                                                     renders),
                             nested |-> 0]
    /\ stops' = 0
    /\ UNCHANGED <<exceptLoop, impl, isPaused, rafId, maxDeltaTime,
                   orphans>>

\* What a callback may do to the loop that invoked it: call stop(), or call
\* stop() and then start().
CallbackCalls == {"stop", "restart"}

\* The frame requests: the one rafId names, or one it no longer names.
Requests == {"named", "orphan"}

\* loop() with an update callback that calls into the loop: the callAt-th
\* invocation of the frame calls stop() (does = "stop") or stop() and then
\* start() (does = "restart") before it returns or throws.  The drain loop
\* tests the accumulator and the update count only, never `running`; the
\* next frame is requested at the end whatever the callback did.
EngineLoopCalling(fired, throwAt, renderThrows, callAt, does) ==
    /\ impl = "engine"
    /\ IF fired = "named" THEN rafPending ELSE orphans > 0
    /\ callAt = 0 => does = "stop"
    /\ op' = "frame"
    /\ startResult' = "none"
    /\ stops' = 0
    /\ LET pend0 == IF fired = "named" THEN FALSE ELSE rafPending
           orph0 == IF fired = "named" THEN orphans ELSE orphans - 1
       IN  IF ~running
           THEN /\ rafPending' = pend0
                /\ orphans' = orph0
                /\ frame' = NoFrame
                /\ UNCHANGED <<sinceLast, accumulator, running, faulted,
                               balance, totalThrown, halted>>
           ELSE LET deltaTime == sinceLast
                    d == EngineDrain(accumulator + deltaTime, 0, throwAt)
                    called == callAt \in 1..d.calls
                    stopped == called /\ does = "stop"
                    restarted == called /\ does = "restart"
                    p == EnginePanic(d.acc, d.updates)
                    rthrow == ~d.threw /\ renderThrows
                    renders == IF d.threw THEN 0 ELSE 1
                    thrown == d.threw \/ rthrow
                    \* stop() cancels the request rafId names, start() makes one
                    pend1 == IF called THEN restarted ELSE pend0
                IN  /\ Account(FRAME_TIME, d.calls, deltaTime,
                               IF d.threw THEN 1 ELSE 0)
                    /\ sinceLast' = 0
                    /\ accumulator' = IF d.threw THEN d.acc ELSE p.acc
                    /\ running' = (~stopped /\ ~thrown)
                    /\ rafPending' = ~thrown
                    /\ orphans' = IF ~thrown /\ pend1 THEN orph0 + 1 ELSE orph0
                    /\ orphans' <= MaxOrphans
                    /\ faulted' = (thrown \/ (faulted /\ ~restarted))
                    /\ halted' = IF thrown THEN TRUE
                                 ELSE IF called THEN stopped ELSE halted
                    /\ frame' = [calls |-> d.calls, updates |-> d.updates,
                                 variable |-> 0,
                                 threw |-> IF d.threw THEN "update"
                                           ELSE IF rthrow THEN "render"
                                           ELSE "none",
                                 after |-> AfterThrow(faulted, 0, d.calls,
                                                      throwAt, renders),
                                 rendered |-> ~d.threw,
                                 alpha |-> IF d.threw THEN <<0, 1>>
                                           ELSE EngineInterpolation(p.acc),
                                 panics |-> IF d.threw THEN 0 ELSE p.panics,
                                 capped |-> d.updates >= MAX_UPDATES_PER_FRAME,
                                 added |-> deltaTime, skipped |-> FALSE,
                                 afterStop |->
                                     IF stopped
                                     THEN (d.calls - callAt) + renders
                                     ELSE AfterStop(halted, 0, d.calls, renders),
                                 nested |-> 0]
    /\ UNCHANGED <<exceptLoop, impl, isPaused, rafId, maxDeltaTime>>

(***************************************************************************)
(* systems/GameLoop.ts                                                     *)
(***************************************************************************)
\* Mutant of SystemsDrain: the loop stops one step early (> for >=).
RECURSIVE SystemsDrainStrict(_, _)
SystemsDrainStrict(acc, calls) ==
    IF acc > fixedTimeStep
    THEN SystemsDrainStrict(acc - fixedTimeStep, calls + 1)
    ELSE [acc |-> acc, calls |-> calls]

\* while (accumulator >= fixedTimeStep) { callbacks.forEach(try cb catch log);
\*                                        accumulator -= fixedTimeStep }
RECURSIVE SystemsDrain(_, _)
SystemsDrain(acc, calls) ==
    IF acc >= fixedTimeStep
    THEN SystemsDrain(acc - fixedTimeStep, calls + 1)
    ELSE [acc |-> acc, calls |-> calls]

\* deltaTime = Math.min(deltaTime, maxDeltaTime)
SystemsClamp(deltaTime) == Min(deltaTime, SYS_maxDeltaTime)

\* alpha = accumulator / fixedTimeStep
SystemsAlpha(acc) == <<acc, fixedTimeStep>>

\* What a caught exception of a callback does to the loop: it is logged and
\* the loop keeps running and schedules the next frame.
SystemsKeepsRunning(threw) == TRUE

\* The body of tick() once isRunning is known to hold: the new field values
\* and what the frame did.  One callback of each kind is registered; a throw
\* is caught around the single callback and logged.
SystemsTickBody(acc, since, wasFaulted, wasHalted, throwAt, renderThrows) ==
    LET deltaTime == SystemsClamp(since)
        d == SystemsDrain(acc + deltaTime, 0)
        uthrow == throwAt \in 1..d.calls
    IN  [accumulator |-> d.acc,
         added |-> deltaTime,
         calls |-> d.calls,
         thrown |-> IF uthrow THEN 1 ELSE 0,
         faulted |-> (wasFaulted \/ uthrow \/ renderThrows),
         running |-> SystemsKeepsRunning(uthrow \/ renderThrows),
         frame |-> [calls |-> d.calls, updates |-> d.calls, variable |-> 1,
                    threw |-> IF uthrow THEN "update"
                              ELSE IF renderThrows THEN "render" ELSE "none",
                    after |-> AfterThrow(wasFaulted, 1, d.calls, throwAt, 1),
                    rendered |-> TRUE,
                    alpha |-> SystemsAlpha(d.acc),
                    panics |-> 0,
                    capped |-> FALSE,
                    added |-> deltaTime, skipped |-> FALSE,
                    afterStop |-> AfterStop(wasHalted, 1, d.calls, 1),
                    nested |-> 0]]

\* start(): throws when isRunning; else isRunning = true, lastTime = now,
\* accumulator = 0, and tick() runs at once.
SystemsStart ==
    /\ impl = "systems"
    /\ op' = "start"
    /\ IF running
       THEN /\ startResult' = "error"
            /\ frame' = NoFrame
            /\ UNCHANGED <<running, sinceLast, accumulator, rafId, rafPending,
                           faulted, balance, totalThrown, orphans, halted>>
       ELSE LET t == SystemsTickBody(0, 0, FALSE, FALSE, 0, FALSE)
            IN  /\ Account(fixedTimeStep, t.calls, t.added, t.thrown)
                /\ startResult' = "ok"
                /\ running' = TRUE
                /\ sinceLast' = 0
                /\ accumulator' = t.accumulator
                /\ rafId' = "handle"
                /\ rafPending' = TRUE
                /\ orphans' = orphans + (IF rafPending THEN 1 ELSE 0)
                /\ orphans' <= MaxOrphans
                /\ faulted' = t.faulted
                /\ halted' = FALSE
                /\ frame' = t.frame
    /\ stops' = 0
    /\ UNCHANGED <<exceptLoop, impl, isPaused, maxDeltaTime>>

SystemsStop ==
    /\ impl = "systems"
    /\ op' = "stop"
    /\ frame' = NoFrame
    /\ startResult' = "none"
    /\ running' = FALSE
    /\ IF rafId # "null"
       THEN /\ rafPending' = FALSE
            /\ rafId' = "null"
       ELSE UNCHANGED <<rafPending, rafId>>
    /\ stops' = OneMoreStop(stops)
    /\ halted' = TRUE
    /\ UNCHANGED <<exceptLoop, impl, sinceLast, accumulator, isPaused, maxDeltaTime,
                   faulted, balance, totalThrown, orphans>>

\* The frame callback requested by the previous tick fires.
SystemsTick(throwAt, renderThrows) ==
    /\ impl = "systems"
    /\ rafPending
    /\ op' = "frame"
    /\ startResult' = "none"
    /\ IF ~running
       THEN /\ rafPending' = FALSE
            /\ frame' = NoFrame
            /\ UNCHANGED <<sinceLast, accumulator, running, rafId, faulted,
                           balance, totalThrown>>
       ELSE LET t == SystemsTickBody(accumulator, sinceLast, faulted, halted,
                                     throwAt, renderThrows)
            IN  /\ Account(fixedTimeStep, t.calls, t.added, t.thrown)
                /\ sinceLast' = 0
                /\ accumulator' = t.accumulator
                /\ running' = t.running
                /\ rafId' = "handle"
                /\ rafPending' = t.running
                /\ faulted' = t.faulted
                /\ frame' = t.frame
    /\ stops' = 0
    /\ UNCHANGED <<exceptLoop, impl, isPaused, maxDeltaTime, orphans,
                   halted>>

\* tick() with a fixed-update callback that calls into the loop at its
\* callAt-th invocation.  stop() clears isRunning and the handle; start()
\* zeroes the accumulator and runs tick() at once, inside the callback: the
\* inner tick invokes the update and render callbacks and requests a frame,
\* then the outer drain loop subtracts its step from the zeroed accumulator
\* and ends.  Neither the drain loop nor the scheduling tests isRunning.
SystemsTickCalling(fired, throwAt, renderThrows, callAt, does) ==
    /\ impl = "systems"
    /\ IF fired = "named" THEN rafPending ELSE orphans > 0
    /\ callAt = 0 => does = "stop"
    /\ op' = "frame"
    /\ startResult' = "none"
    /\ stops' = 0
    /\ LET pend0 == IF fired = "named" THEN FALSE ELSE rafPending
           orph0 == IF fired = "named" THEN orphans ELSE orphans - 1
       IN  IF ~running
           THEN /\ rafPending' = pend0
                /\ orphans' = orph0
                /\ frame' = NoFrame
                /\ UNCHANGED <<sinceLast, accumulator, running, rafId, faulted,
                               balance, totalThrown, halted>>
           ELSE LET deltaTime == SystemsClamp(sinceLast)
                    d == SystemsDrain(accumulator + deltaTime, 0)
                    called == callAt \in 1..d.calls
                    stopped == called /\ does = "stop"
                    restarted == called /\ does = "restart"
                    inner == SystemsTickBody(0, 0, FALSE, FALSE, 0, renderThrows)
                    calls == IF restarted THEN callAt + inner.calls ELSE d.calls
                    acc == IF restarted THEN inner.accumulator - fixedTimeStep
                           ELSE d.acc
                    uthrow == throwAt \in 1..calls
                    pend1 == IF called THEN restarted ELSE pend0
                IN  /\ Account(fixedTimeStep, calls, deltaTime,
                               IF uthrow THEN 1 ELSE 0)
                    /\ sinceLast' = 0
                    /\ accumulator' = acc
                    /\ running' = (~stopped
                                   /\ SystemsKeepsRunning(uthrow \/ renderThrows))
                    /\ rafId' = "handle"
                    /\ rafPending' = TRUE
                    /\ orphans' = IF pend1 THEN orph0 + 1 ELSE orph0
                    /\ orphans' <= MaxOrphans
                    /\ faulted' = (\/ faulted /\ ~restarted
                                   \/ uthrow /\ (restarted => throwAt = callAt)
                                   \/ renderThrows)
                    /\ halted' = IF called THEN stopped ELSE halted
                    /\ frame' = [calls |-> calls, updates |-> calls,
                                 variable |-> IF restarted THEN 2 ELSE 1,
                                 threw |-> IF uthrow THEN "update"
                                           ELSE IF renderThrows THEN "render"
                                           ELSE "none",
                                 after |-> AfterThrow(faulted, 1, calls,
                                                      throwAt, 1),
                                 rendered |-> TRUE,
                                 alpha |-> SystemsAlpha(acc),
                                 panics |-> 0,
                                 capped |-> FALSE,
                                 added |-> deltaTime, skipped |-> FALSE,
                                 afterStop |->
                                     IF stopped THEN (d.calls - callAt) + 1
                                     ELSE AfterStop(halted, 1, calls, 1),
                                 nested |-> IF restarted THEN 1 ELSE 0]
    /\ UNCHANGED <<exceptLoop, impl, isPaused, maxDeltaTime>>

(***************************************************************************)
(* Timer.ts (unnamed/part_006)                                             *)
(***************************************************************************)
\* Mutant of TimerDrain: the loop stops one step early (> for >=).
RECURSIVE TimerDrainStrict(_, _)
TimerDrainStrict(acc, calls) ==
    IF acc > DEFAULT_FIXED_TIMESTEP
    THEN TimerDrainStrict(acc - DEFAULT_FIXED_TIMESTEP, calls + 1)
    ELSE [acc |-> acc, calls |-> calls]

\* while (accumulator >= fixedTimestep) { emitFixedUpdate(fixedTimestep);
\*                                        accumulator -= fixedTimestep }
RECURSIVE TimerDrain(_, _)
TimerDrain(acc, calls) ==
    IF acc >= DEFAULT_FIXED_TIMESTEP
    THEN TimerDrain(acc - DEFAULT_FIXED_TIMESTEP, calls + 1)
    ELSE [acc |-> acc, calls |-> calls]

\* deltaTime = Math.max(Math.min(deltaTime, maxDeltaTime), MIN_DELTA_TIME)
TimerClamp(deltaTime, maxDelta) == Max(Min(deltaTime, maxDelta), MIN_DELTA_TIME)

\* alpha = accumulator / fixedTimestep
TimerAlpha(acc) == <<acc, DEFAULT_FIXED_TIMESTEP>>

\* isRunning(): rafId !== null && !isPaused
TimerIsRunning == rafId # "null" /\ ~isPaused

\* The body of tick() after the next frame has been requested and isPaused
\* has been found false.
TimerTickBody(acc, since, wasHalted) ==
    LET deltaTime == TimerClamp(since, maxDeltaTime)
        d == TimerDrain(acc + deltaTime, 0)
    IN  [accumulator |-> d.acc,
         added |-> deltaTime,
         calls |-> d.calls,
         frame |-> [calls |-> d.calls, updates |-> d.calls, variable |-> 0,
                    threw |-> "none", after |-> 0, rendered |-> TRUE,
                    alpha |-> TimerAlpha(d.acc), panics |-> 0,
                    capped |-> FALSE, added |-> deltaTime, skipped |-> FALSE,
                    afterStop |-> AfterStop(wasHalted, 0, d.calls, 1),
                    nested |-> 0]]

\* start(): throws when rafId !== null; else lastTime = now, isPaused = false,
\* and tick() runs at once.
TimerStart ==
    /\ impl = "timer"
    /\ op' = "start"
    /\ IF rafId # "null"
       THEN /\ startResult' = "error"
            /\ frame' = NoFrame
            /\ UNCHANGED <<sinceLast, accumulator, isPaused, rafId, rafPending,
                           balance, totalThrown, halted>>
       ELSE LET t == TimerTickBody(accumulator, 0, FALSE)
            IN  /\ Account(DEFAULT_FIXED_TIMESTEP, t.calls, t.added, 0)
                /\ startResult' = "ok"
                /\ sinceLast' = 0
                /\ isPaused' = FALSE
                /\ rafId' = "handle"
                /\ rafPending' = TRUE
                /\ accumulator' = t.accumulator
                /\ halted' = FALSE
                /\ frame' = t.frame
    /\ stops' = 0
    /\ UNCHANGED <<exceptLoop, impl, running, maxDeltaTime, faulted,
                   orphans>>

\* Mutant of TimerStop: stop() written as a toggle of the pause flag.
TimerStopToggles ==
    /\ impl = "timer"
    /\ op' = "stop"
    /\ frame' = NoFrame
    /\ startResult' = "none"
    /\ IF rafId # "null"
       THEN /\ rafPending' = FALSE
            /\ rafId' = "null"
       ELSE UNCHANGED <<rafPending, rafId>>
    /\ isPaused' = ~isPaused
    /\ accumulator' = 0
    /\ stops' = OneMoreStop(stops)
    /\ halted' = TRUE
    /\ UNCHANGED <<exceptLoop, impl, sinceLast, running, maxDeltaTime, faulted, balance,
                   totalThrown, orphans>>

TimerStop ==
    /\ impl = "timer"
    /\ op' = "stop"
    /\ frame' = NoFrame
    /\ startResult' = "none"
    /\ IF rafId # "null"
       THEN /\ rafPending' = FALSE
            /\ rafId' = "null"
       ELSE UNCHANGED <<rafPending, rafId>>
    /\ isPaused' = TRUE
    /\ accumulator' = 0
    /\ stops' = OneMoreStop(stops)
    /\ halted' = TRUE
    /\ UNCHANGED <<exceptLoop, impl, sinceLast, running, maxDeltaTime, faulted, balance,
                   totalThrown, orphans>>

TimerPause ==
    /\ impl = "timer"
    /\ op' = "pause"
    /\ frame' = NoFrame
    /\ startResult' = "none"
    /\ isPaused' = TRUE
    /\ stops' = 0
    /\ UNCHANGED <<exceptLoop, impl, sinceLast, accumulator, running, rafId, rafPending,
                   maxDeltaTime, faulted, balance, totalThrown, orphans,
                   halted>>

\* Mutant of TimerResume: resume() clears the flag and keeps lastTime.
TimerResumeKeepsLastTime ==
    /\ impl = "timer"
    /\ op' = "resume"
    /\ frame' = NoFrame
    /\ startResult' = "none"
    /\ isPaused' = FALSE
    /\ stops' = 0
    /\ UNCHANGED <<exceptLoop, impl, sinceLast, accumulator, running, rafId,
                   rafPending, maxDeltaTime, faulted, balance, totalThrown,
                   orphans, halted>>

\* resume(): if (isPaused) { isPaused = false; lastTime = now }
TimerResume ==
    /\ impl = "timer"
    /\ op' = "resume"
    /\ frame' = NoFrame
    /\ startResult' = "none"
    /\ IF isPaused
       THEN /\ isPaused' = FALSE
            /\ sinceLast' = 0
       ELSE UNCHANGED <<isPaused, sinceLast>>
    /\ stops' = 0
    /\ UNCHANGED <<exceptLoop, impl, accumulator, running, rafId, rafPending, maxDeltaTime,
                   faulted, balance, totalThrown, orphans, halted>>

\* The frame callback requested by the previous tick fires.
TimerTick ==
    /\ impl = "timer"
    /\ rafPending
    /\ op' = "frame"
    /\ startResult' = "none"
    /\ rafId' = "handle"
    /\ rafPending' = TRUE
    /\ IF isPaused
       THEN /\ frame' = NoFrame
            /\ UNCHANGED <<sinceLast, accumulator, balance, totalThrown>>
       ELSE LET t == TimerTickBody(accumulator, sinceLast, halted)
            IN  /\ Account(DEFAULT_FIXED_TIMESTEP, t.calls, t.added, 0)
                /\ sinceLast' = 0
                /\ accumulator' = t.accumulator
                /\ frame' = t.frame
    /\ stops' = 0
    /\ UNCHANGED <<exceptLoop, impl, running, isPaused, maxDeltaTime, faulted,
                   orphans, halted>>

(***************************************************************************)
(* engine/collision/CollisionSystem.ts: Quadtree                           *)
(*                                                                         *)
(* A node is [boundary, level, objects, nodes]; nodes is <<>> or the four  *)
(* children, child i of the source at position i + 1.                      *)
(***************************************************************************)
NewBox(x, y, w, h) == [x |-> x, y |-> y, width |-> w, height |-> h]

\* The root boundary of the reference scenario, {0, 0, 100, 100}.
RootBoundary == NewBox(0, 0, 100, 100)

\* A root too small to split (its quadrants would be 10 wide, below
\* MIN_SIZE) and one large enough to be subdivided down to MAX_LEVELS (its
\* level-5 nodes are 32 wide and their quadrants would still be MIN_SIZE).
SmallBoundary == NewBox(0, 0, 20, 20)
BigBoundary == NewBox(0, 0, 1024, 1024)

RootBoundaries == {RootBoundary, SmallBoundary, BigBoundary}

\* Objects handed to the tree: one straddling both midlines of the root, one
\* in a corner small enough to sit in one quadrant at every level, one in the
\* top-left quadrant close to the centre, one in the top-right quadrant, and
\* one whose left edge lies on the vertical midline.
Shapes == << NewBox(45, 45, 10, 10),
            NewBox(2, 2, 5, 5),
            NewBox(40, 40, 8, 8),
            NewBox(60, 10, 5, 5),
            NewBox(50, 60, 5, 5) >>

\* Pairwise disjoint 4 x 4 objects: eleven in the top-left sub-quadrant
\* {0, 0, 25, 25} of the top-left quadrant of RootBoundary, one in the
\* top-right sub-quadrant of that quadrant, one in the top-right and one in
\* the bottom-left quadrant of the root, and one across its vertical midline.
Disjoint == << NewBox(1, 1, 4, 4), NewBox(7, 1, 4, 4), NewBox(13, 1, 4, 4),
              NewBox(19, 1, 4, 4),
              NewBox(1, 7, 4, 4), NewBox(7, 7, 4, 4), NewBox(13, 7, 4, 4),
              NewBox(19, 7, 4, 4),
              NewBox(1, 13, 4, 4), NewBox(7, 13, 4, 4), NewBox(13, 13, 4, 4),
              NewBox(30, 2, 4, 4),
              NewBox(60, 10, 4, 4),
              NewBox(10, 60, 4, 4),
              NewBox(48, 60, 4, 4) >>

\* Objects without extent or with a negative dimension.
Degenerate == << NewBox(10, 10, 0, 0),
                NewBox(10, 10, -5, 5),
                NewBox(60, 60, 5, 0) >>

Boxes == Shapes \o Disjoint \o Degenerate

\* Indices in Boxes of the objects that are inserted any number of times
\* and of those inserted at most once.
Repeated == 1..Len(Shapes)
Tiles == (Len(Shapes) + 1)..(Len(Shapes) + Len(Disjoint))
Rejected == (Len(Shapes) + Len(Disjoint) + 1)..Len(Boxes)

\* The object of the n-th insert since the last clear, a copy of Boxes[b].
NewObject(n, b) ==
    [id |-> n, x |-> Boxes[b].x, y |-> Boxes[b].y,
     width |-> Boxes[b].width, height |-> Boxes[b].height]

\* constructor(boundary, level)
NewNode(boundary, level) ==
    [boundary |-> boundary, level |-> level, objects |-> <<>>, nodes |-> <<>>]

\* isValidBoundary(boundary)
IsValidBoundary(b) == b.width > 0 /\ b.height > 0

\* Mutant of Split: the two upper quadrants are created in the wrong order
\* (index 0 at the top left, index 1 at the top right).
SplitSwapped(node) ==
    LET b == node.boundary
        subWidth == b.width \div 2
        subHeight == b.height \div 2
    IN  IF b.width < 2 * MIN_SIZE \/ b.height < 2 * MIN_SIZE
        THEN node
        ELSE [node EXCEPT !.nodes =
                << NewNode(NewBox(b.x, b.y, subWidth, subHeight),
                           node.level + 1),
                   NewNode(NewBox(b.x + subWidth, b.y, subWidth, subHeight),
                           node.level + 1),
                   NewNode(NewBox(b.x, b.y + subHeight, subWidth, subHeight),
                           node.level + 1),
                   NewNode(NewBox(b.x + subWidth, b.y + subHeight, subWidth,
                                  subHeight),
                           node.level + 1) >>]

\* split(): subWidth = width / 2, subHeight = height / 2; no children when
\* either is below MIN_SIZE (width / 2 < MIN_SIZE iff width < 2 * MIN_SIZE).
Split(node) ==
    LET b == node.boundary
        subWidth == b.width \div 2
        subHeight == b.height \div 2
    IN  IF b.width < 2 * MIN_SIZE \/ b.height < 2 * MIN_SIZE
        THEN node
        ELSE [node EXCEPT !.nodes =
                << NewNode(NewBox(b.x + subWidth, b.y, subWidth, subHeight),
                           node.level + 1),
                   NewNode(NewBox(b.x, b.y, subWidth, subHeight),
                           node.level + 1),
                   NewNode(NewBox(b.x, b.y + subHeight, subWidth, subHeight),
                           node.level + 1),
                   NewNode(NewBox(b.x + subWidth, b.y + subHeight, subWidth,
                                  subHeight),
                           node.level + 1) >>]

\* getIndices(object): the child indices, in the order they are pushed.
\* The midpoints x + width / 2 and y + height / 2 are compared doubled, so
\* that a midpoint such as 12.5 is exact.
GetIndices(b, o) ==
    LET verticalMidpoint2 == 2 * b.x + b.width
        horizontalMidpoint2 == 2 * b.y + b.height
        topQuadrant == /\ 2 * o.y < horizontalMidpoint2
                       /\ 2 * (o.y + o.height) < horizontalMidpoint2
        bottomQuadrant == 2 * o.y > horizontalMidpoint2
        left == /\ 2 * o.x < verticalMidpoint2
                /\ 2 * (o.x + o.width) < verticalMidpoint2
        right == 2 * o.x > verticalMidpoint2
    IN  (IF left /\ topQuadrant THEN <<1>> ELSE <<>>)
        \o (IF left /\ bottomQuadrant THEN <<2>> ELSE <<>>)
        \o (IF right /\ topQuadrant THEN <<0>> ELSE <<>>)
        \o (IF right /\ bottomQuadrant THEN <<3>> ELSE <<>>)

\* objects.splice(i, 1)
Splice(seq, i) == SubSeq(seq, 1, i - 1) \o SubSeq(seq, i + 1, Len(seq))

RECURSIVE Insert(_, _)
RECURSIVE InsertInto(_, _, _, _)
RECURSIVE Redistribute(_, _)

\* for (const index of indices) this.nodes[index].insert(object), from the
\* k-th index on.  nodes[index] of a node without children is undefined and
\* the call throws a TypeError.
InsertInto(node, indices, k, o) ==
    IF k > Len(indices) THEN [node |-> node, threw |-> FALSE]
    ELSE IF node.nodes = <<>> THEN [node |-> node, threw |-> TRUE]
    ELSE LET r == Insert(node.nodes[indices[k] + 1], o)
             n == [node EXCEPT !.nodes[indices[k] + 1] = r.node]
         IN  IF r.threw THEN [node |-> n, threw |-> TRUE]
             ELSE InsertInto(n, indices, k + 1, o)

\* let i = 0; while (i < objects.length) { indices = getIndices(objects[i]);
\*   if (indices.length > 0) { insert into the children; objects.splice(i, 1) }
\*   else i++ }       (i counts from 1 here)
Redistribute(node, i) ==
    IF i > Len(node.objects) THEN [node |-> node, threw |-> FALSE]
    ELSE LET indices == GetIndices(node.boundary, node.objects[i])
         IN  IF indices = <<>> THEN Redistribute(node, i + 1)
             ELSE LET r == InsertInto(node, indices, 1, node.objects[i])
                  IN  IF r.threw THEN r
                      ELSE Redistribute(
                               [r.node EXCEPT !.objects = Splice(@, i)], i)

\* Mutant of Insert: a node at MAX_LEVELS still splits (<= for <).
InsertDeeper(node, o) ==
    IF node.nodes # <<>>
    THEN InsertInto(node, GetIndices(node.boundary, o), 1, o)
    ELSE LET pushed == [node EXCEPT !.objects = Append(@, o)]
         IN  IF Len(pushed.objects) > MAX_OBJECTS /\ node.level <= MAX_LEVELS
             THEN Redistribute(Split(pushed), 1)
             ELSE [node |-> pushed, threw |-> FALSE]

\* insert(object)
Insert(node, o) ==
    IF node.nodes # <<>>
    THEN InsertInto(node, GetIndices(node.boundary, o), 1, o)
    ELSE LET pushed == [node EXCEPT !.objects = Append(@, o)]
         IN  IF Len(pushed.objects) > MAX_OBJECTS /\ node.level < MAX_LEVELS
             THEN Redistribute(Split(pushed), 1)
             ELSE [node |-> pushed, threw |-> FALSE]

RECURSIVE Retrieve(_, _)
RECURSIVE RetrieveFrom(_, _, _, _)

\* for (const index of indices) returnObjects =
\*     returnObjects.concat(this.nodes[index].retrieve(object))
RetrieveFrom(node, indices, k, o) ==
    IF k > Len(indices) THEN <<>>
    ELSE Retrieve(node.nodes[indices[k] + 1], o)
         \o RetrieveFrom(node, indices, k + 1, o)

\* retrieve(object)
Retrieve(node, o) ==
    IF node.nodes # <<>>
    THEN node.objects \o RetrieveFrom(node, GetIndices(node.boundary, o), 1, o)
    ELSE node.objects

\* Mutant of Clear: the objects are dropped, the children are kept.
ClearKeepsNodes(node) == [node EXCEPT !.objects = <<>>]

\* clear()
Clear(node) == [node EXCEPT !.objects = <<>>, !.nodes = <<>>]

\* Quadtree.checkCollision(objA, objB)
QuadtreeCheckCollision(a, b) ==
    ~(\/ a.x + a.width < b.x
      \/ a.x > b.x + b.width
      \/ a.y + a.height < b.y
      \/ a.y > b.y + b.height)

\* Every object stored anywhere below a node.
RECURSIVE Stored(_)
RECURSIVE StoredIn(_, _)
StoredIn(nodes, k) ==
    IF k > Len(nodes) THEN <<>> ELSE Stored(nodes[k]) \o StoredIn(nodes, k + 1)

Stored(node) == node.objects \o StoredIn(node.nodes, 1)

\* tree.insert(object): the objects arrive in the order of Boxes.
QInsert(b) ==
    /\ Len(items) < MaxInserts
    /\ items # <<>> => b >= items[Len(items)]
    /\ LET r == Insert(tree, NewObject(Len(items) + 1, b))
       IN  /\ tree' = r.node
           /\ insertThrew' = r.threw
    /\ items' = Append(items, b)
    /\ query' = 0
    /\ retrieved' = <<>>
    /\ UNCHANGED <<cleared, exceptTree>>

\* tree.insert(object) of objects that are pairwise disjoint: each object of
\* Disjoint at most once.
QInsertDisjoint(b) ==
    /\ items # <<>> => b > items[Len(items)]
    /\ QInsert(b)

\* tree.retrieve(object)
QRetrieve(q) ==
    /\ query' = q
    /\ retrieved' = Retrieve(tree, Boxes[q])
    /\ UNCHANGED <<tree, items, insertThrew, cleared, exceptTree>>

\* tree.clear()
QClear ==
    /\ items # <<>>
    /\ tree' = Clear(tree)
    /\ items' = <<>>
    /\ insertThrew' = FALSE
    /\ query' = 0
    /\ retrieved' = <<>>
    /\ cleared' = TRUE
    /\ UNCHANGED exceptTree

(***************************************************************************)
(* engine/collision/CollisionSystem.ts: CollisionSystem                    *)
(***************************************************************************)
\* Mutant of ValidBoundingBox: only the width is tested.
ValidBoundingBoxWidthOnly(box) == ~(box.width < 0)

\* validateBoundingBox(box): throws on a negative dimension
ValidBoundingBox(box) == ~(box.width < 0 \/ box.height < 0)

\* Mutant of DetectAABBCollision: touching boxes count as colliding.
DetectAABBCollisionTouching(a, b) ==
    LET xOverlap == Min(a.x + a.width - b.x, b.x + b.width - a.x)
        yOverlap == Min(a.y + a.height - b.y, b.y + b.height - a.y)
    IN  IF xOverlap >= 0 /\ yOverlap >= 0
        THEN [hasCollision |-> TRUE, overlap |-> [x |-> xOverlap, y |-> yOverlap]]
        ELSE [hasCollision |-> FALSE]

\* Mutant of DetectAABBCollision: the overlap is the larger of the two
\* differences on each axis.
DetectAABBCollisionMaxOverlap(a, b) ==
    LET xOverlap == Min(a.x + a.width - b.x, b.x + b.width - a.x)
        yOverlap == Min(a.y + a.height - b.y, b.y + b.height - a.y)
    IN  IF xOverlap > 0 /\ yOverlap > 0
        THEN [hasCollision |-> TRUE,
              overlap |-> [x |-> Max(a.x + a.width - b.x, b.x + b.width - a.x),
                           y |-> Max(a.y + a.height - b.y,
                                     b.y + b.height - a.y)]]
        ELSE [hasCollision |-> FALSE]

\* detectAABBCollision(boxA, boxB)
DetectAABBCollision(a, b) ==
    LET xOverlap == Min(a.x + a.width - b.x, b.x + b.width - a.x)
        yOverlap == Min(a.y + a.height - b.y, b.y + b.height - a.y)
    IN  IF xOverlap > 0 /\ yOverlap > 0
        THEN [hasCollision |-> TRUE, overlap |-> [x |-> xOverlap, y |-> yOverlap]]
        ELSE [hasCollision |-> FALSE]

\* checkCollision(boxA, boxB): "threw" when a box fails validation
CheckCollision(a, b) ==
    IF ~ValidBoundingBox(a) \/ ~ValidBoundingBox(b)
    THEN [threw |-> TRUE]
    ELSE LET collision == DetectAABBCollision(a, b)
         IN  IF ~collision.hasCollision
             THEN [threw |-> FALSE, hasCollision |-> FALSE]
             ELSE [threw |-> FALSE, hasCollision |-> TRUE,
                   overlap |-> collision.overlap]

\* The two boxes of the reference scenario of checkCollision.
ExampleA == NewBox(0, 0, 10, 10)
ExampleB == NewBox(5, 5, 10, 10)

CollisionBoxes ==
    {NewBox(x, y, w, h) : x \in 0..MaxCoord, y \in 0..MaxCoord,
                          w \in 0..MaxDim, h \in 0..MaxDim}
        \cup {ExampleA, ExampleB}

\* collisionSystem.checkCollision(boxA, boxB)
DoCheckCollision ==
    /\ result = {}
    /\ result' = {CheckCollision(boxA, boxB)}
    /\ UNCHANGED <<boxA, boxB, exceptCollision>>

(***************************************************************************)
(* engine/collision/CollisionSystem.ts: collision groups                   *)
(* A member is a BoundingBox object, named by its index in GroupBoxes; a   *)
(* group is a Set, kept as the sequence of its members in insertion order. *)
(***************************************************************************)
GroupIds == {"projectiles", "enemies", "walls"}

\* The objects added to groups: two that overlap, a third object equal to
\* the second, one that only touches the first at a corner, and one of
\* negative width.
GroupBoxes == << NewBox(0, 0, 2, 2),
                NewBox(1, 1, 2, 2),
                NewBox(1, 1, 2, 2),
                NewBox(2, 2, 1, 1),
                NewBox(0, 0, -1, 2) >>

AnyMembers == 1..Len(GroupBoxes)

\* The objects that pass validateBoundingBox.
Members == {m \in AnyMembers : GroupBoxes[m].width >= 0 /\ GroupBoxes[m].height >= 0}

NoGroups == [g \in {} |-> <<>>]

\* Set.has(member)
IsMember(group, m) == \E k \in 1..Len(group) : group[k] = m

\* Set.add(member)
SetAdd(group, m) == IF IsMember(group, m) THEN group ELSE Append(group, m)

\* Set.delete(member)
SetDelete(group, m) == SelectSeq(group, LAMBDA x : x # m)

RECURSIVE TotalMembers(_, _)
TotalMembers(groups, ids) ==
    IF ids = {} THEN 0
    ELSE LET g == CHOOSE x \in ids : TRUE
         IN  Len(groups[g]) + TotalMembers(groups, ids \ {g})

\* addToCollisionGroup(groupId, boundingBox)
AddToCollisionGroup(g, m) ==
    /\ TotalMembers(collisionGroups, DOMAIN collisionGroups) < MaxMembers
    /\ LET created == IF g \in DOMAIN collisionGroups THEN collisionGroups
                      ELSE [x \in DOMAIN collisionGroups \cup {g} |->
                               IF x = g THEN <<>> ELSE collisionGroups[x]]
       IN  collisionGroups' = [created EXCEPT ![g] = SetAdd(@, m)]
    /\ groupOp' = "addToCollisionGroup"
    /\ groupArgs' = <<>>
    /\ groupResult' = <<>>
    /\ groupThrew' = FALSE
    /\ UNCHANGED exceptGroups

\* removeFromCollisionGroup(groupId, boundingBox)
RemoveFromCollisionGroup(g, m) ==
    /\ collisionGroups' =
          IF g \notin DOMAIN collisionGroups THEN collisionGroups
          ELSE [collisionGroups EXCEPT ![g] = SetDelete(@, m)]
    /\ groupOp' = "removeFromCollisionGroup"
    /\ groupArgs' = <<>>
    /\ groupResult' = <<>>
    /\ groupThrew' = FALSE
    /\ UNCHANGED exceptGroups

\* clearCollisionGroups()
ClearCollisionGroups ==
    /\ collisionGroups' = NoGroups
    /\ groupOp' = "clearCollisionGroups"
    /\ groupArgs' = <<>>
    /\ groupResult' = <<>>
    /\ groupThrew' = FALSE
    /\ UNCHANGED exceptGroups

\* groupBObjects.forEach(boxB => { if (checkCollision(boxA, boxB)
\*   .hasCollision) collisions.push([boxA, boxB]) }), from the k-th member on
\* An exception of checkCollision ends the loop.
RECURSIVE ForEachB(_, _, _, _)
ForEachB(a, groupB, k, collisions) ==
    IF k > Len(groupB) THEN [collisions |-> collisions, threw |-> FALSE]
    ELSE LET r == CheckCollision(GroupBoxes[a], GroupBoxes[groupB[k]])
         IN  IF r.threw THEN [collisions |-> collisions, threw |-> TRUE]
             ELSE ForEachB(a, groupB, k + 1,
                           IF r.hasCollision
                           THEN Append(collisions, <<a, groupB[k]>>)
                           ELSE collisions)

\* groupAObjects.forEach(boxA => groupBObjects.forEach(...)), from the k-th
\* member on
RECURSIVE ForEachA(_, _, _, _)
ForEachA(groupA, groupB, k, collisions) ==
    IF k > Len(groupA) THEN [collisions |-> collisions, threw |-> FALSE]
    ELSE LET r == ForEachB(groupA[k], groupB, 1, collisions)
         IN  IF r.threw THEN r
             ELSE ForEachA(groupA, groupB, k + 1, r.collisions)

\* return collisions, unless the loops threw
Returns(r) == IF r.threw THEN <<>> ELSE r.collisions

\* Every member of every group, group by group.
RECURSIVE AllMembers(_, _)
AllMembers(groups, ids) ==
    IF ids = {} THEN <<>>
    ELSE LET g == CHOOSE x \in ids : TRUE
         IN  groups[g] \o AllMembers(groups, ids \ {g})

\* Mutant of CheckGroupCollisions: the members of groupA are tested against
\* the members of every group.
CheckGroupCollisionsEveryGroup(gA, gB) ==
    /\ LET r == IF gA \notin DOMAIN collisionGroups
                    \/ gB \notin DOMAIN collisionGroups
                 THEN [collisions |-> <<>>, threw |-> FALSE]
                 ELSE ForEachA(collisionGroups[gA],
                               AllMembers(collisionGroups,
                                          DOMAIN collisionGroups),
                               1, <<>>)
       IN  /\ groupResult' = Returns(r)
           /\ groupThrew' = r.threw
    /\ groupOp' = "checkGroupCollisions"
    /\ groupArgs' = <<gA, gB>>
    /\ UNCHANGED <<collisionGroups, exceptGroups>>

\* checkGroupCollisions(groupA, groupB)
CheckGroupCollisions(gA, gB) ==
    /\ LET r == IF gA \notin DOMAIN collisionGroups
                    \/ gB \notin DOMAIN collisionGroups
                 THEN [collisions |-> <<>>, threw |-> FALSE]
                 ELSE ForEachA(collisionGroups[gA], collisionGroups[gB],
                               1, <<>>)
       IN  /\ groupResult' = Returns(r)
           /\ groupThrew' = r.threw
    /\ groupOp' = "checkGroupCollisions"
    /\ groupArgs' = <<gA, gB>>
    /\ UNCHANGED <<collisionGroups, exceptGroups>>

(***************************************************************************)
(* entities/Projectile.ts: EntityManager                                   *)
(* The QuadTree it holds (utils/QuadTree) is kept as the number of entries *)
(* per entity identifier.                                                  *)
(***************************************************************************)
\* The identifiers entities are created with.
EntityIds == {"e1", "e2", "e3"}

\* entities.has(id)
Registered(ents, id) == \E i \in 1..Len(ents) : ents[i].id = id

NoEntries == [id \in EntityIds |-> 0]

\* quadTree.clear(): no items are left
QuadTreeClear(entries) == NoEntries

\* quadTree.insert({id, x, y, width, height}): the item is stored
QuadTreeInsert(entries, id) == [entries EXCEPT ![id] = @ + 1]

\* for (const entity of entities.values()) if (entity.isActive) {
\*   updateQueue.push(entity); quadTree.insert({id: entity.id, ...}) }
RECURSIVE Collect(_, _, _, _)
Collect(ents, i, queue, entries) ==
    IF i > Len(ents) THEN [updateQueue |-> queue, quadTree |-> entries]
    ELSE IF ents[i].isActive
         THEN Collect(ents, i + 1, Append(queue, ents[i].id),
                      QuadTreeInsert(entries, ents[i].id))
         ELSE Collect(ents, i + 1, queue, entries)

\* Mutant of Rebuild: the tree is not cleared before the entities are
\* inserted.
RebuildKeepsEntries(ents, entries) == Collect(ents, 1, <<>>, entries)

\* update(): updateQueue = []; quadTree.clear(); then the loop over entities
Rebuild(ents, entries) == Collect(ents, 1, <<>>, QuadTreeClear(entries))

\* One invocation of an entity's update step by processBatch.
Invocation(id, slow, throwers) ==
    [id |-> id,
     step |-> IF slow THEN "simplifiedUpdate" ELSE "update",
     threw |-> id \in throwers]

\* Mutant of ProcessBatch: no try/catch, an update step that throws ends
\* the batch.
RECURSIVE ProcessBatchAborts(_, _, _, _, _)
ProcessBatchAborts(batch, k, slow, throwers, calls) ==
    IF k > Len(batch) THEN calls
    ELSE IF batch[k] \in throwers
         THEN Append(calls, Invocation(batch[k], slow, throwers))
         ELSE ProcessBatchAborts(batch, k + 1, slow, throwers,
                  Append(calls, Invocation(batch[k], slow, throwers)))

\* processBatch(batch, deltaTime), from the k-th entity of the batch on: the
\* full or the simplified update step, whatever it throws is caught.
RECURSIVE ProcessBatch(_, _, _, _, _)
ProcessBatch(batch, k, slow, throwers, calls) ==
    IF k > Len(batch) THEN calls
    ELSE ProcessBatch(batch, k + 1, slow, throwers,
             Append(calls, Invocation(batch[k], slow, throwers)))

\* for (let i = 0; i < updateQueue.length; i += batchSize)
\*     processBatch(updateQueue.slice(i, i + batchSize), deltaTime)
RECURSIVE ProcessBatches(_, _, _, _, _)
ProcessBatches(queue, i, slow, throwers, calls) ==
    IF i >= Len(queue) THEN calls
    ELSE ProcessBatches(queue, i + batchSize, slow, throwers,
             ProcessBatch(SubSeq(queue, i + 1, Min(i + batchSize, Len(queue))),
                          1, slow, throwers, calls))

\* addEntity(entity): throws when the identifier is registered
AddEntity(id, active) ==
    /\ IF Registered(entities, id)
       THEN /\ emOp' = "addEntityThrew"
            /\ UNCHANGED <<entities, quadTree>>
       ELSE /\ quadTree[id] < MaxEntries
            /\ entities' = Append(entities, [id |-> id, isActive |-> active])
            /\ quadTree' = QuadTreeInsert(quadTree, id)
            /\ emOp' = "addEntity"
    /\ invoked' = <<>>
    /\ atStart' = <<>>
    /\ entriesBefore' = NoEntries
    /\ UNCHANGED <<lastFrameTime, exceptEntities>>

\* removeEntity(entityId)
RemoveEntity(id) ==
    /\ entities' = SelectSeq(entities, LAMBDA e : e.id # id)
    /\ emOp' = "removeEntity"
    /\ invoked' = <<>>
    /\ atStart' = <<>>
    /\ entriesBefore' = NoEntries
    /\ UNCHANGED <<quadTree, lastFrameTime, exceptEntities>>

\* entity.isActive = active, set by the game between two ticks
SetActive(id, active) ==
    /\ \E i \in 1..Len(entities) :
           /\ entities[i].id = id
           /\ entities[i].isActive # active
           /\ entities' = [entities EXCEPT ![i].isActive = active]
    /\ emOp' = "setActive"
    /\ invoked' = <<>>
    /\ atStart' = <<>>
    /\ entriesBefore' = NoEntries
    /\ UNCHANGED <<quadTree, lastFrameTime, exceptEntities>>

\* The identifiers of the active entities.
ActiveIds(ents) == {ents[i].id : i \in {k \in 1..Len(ents) : ents[k].isActive}}

\* update(deltaTime): the update steps of the entities in throwers throw,
\* those of the entities in expiring clear their own isActive, and the call
\* is measured to take measured ms.  updateQueue is assigned anew by every
\* call and read by nothing else, so it lives in the call.
Update(throwers, expiring, measured) ==
    /\ throwers \subseteq ActiveIds(entities)
    /\ expiring \subseteq ActiveIds(entities)
    /\ LET r == Rebuild(entities, quadTree)
       IN  /\ quadTree' = r.quadTree
           /\ invoked' = ProcessBatches(r.updateQueue, 0,
                             lastFrameTime > TARGET_FRAME_TIME, throwers, <<>>)
    /\ entities' =
          [i \in 1..Len(entities) |->
              IF entities[i].isActive /\ entities[i].id \in expiring
              THEN [entities[i] EXCEPT !.isActive = FALSE]
              ELSE entities[i]]
    /\ lastFrameTime' = measured
    /\ emOp' = "update"
    /\ atStart' = entities
    /\ entriesBefore' = quadTree
    /\ UNCHANGED exceptEntities

(***************************************************************************)
(* WaveManager (systems/WaveManager.ts)                                    *)
(***************************************************************************)
WaveImpls == {"systems", "behaviors"}

WaveNumbers == 1..MaxWaves

EnemyCounts == 0..MaxEnemies

NoTimer == -1

\* new Map()
NoConfigs == [n \in {} |-> 0]

\* The state the constructor builds.
NewWaveState ==
    [currentWave |-> 0, enemiesSpawned |-> 0, enemiesRemaining |-> 0,
     isActive |-> FALSE]

\* Completion callbacks handed to start().
Callbacks == {"none", "returns", "stops"}

\* What a call adds to the record of stop(): whether stop() has returned
\* with no start() called since, now and when the call began, and the
\* enemies the call spawned after stop() had returned.
Halt(stopped, spawned) ==
    [halted |-> stopped, wasHalted |-> waveCall.halted,
     spawnedAfterStop |-> spawned]

NoWaveCall ==
    [op |-> "init", threw |-> "none", completed |-> FALSE,
     notified |-> FALSE, wasActive |-> FALSE, waveBefore |-> 0,
     spawnedBefore |-> 0, remainingBefore |-> 0, halted |-> FALSE,
     wasHalted |-> FALSE, spawnedAfterStop |-> 0]

\* What a call found: the fields of the manager when it began.
WaveCallOf(name, message, completed, notified, active, wave, spawned, remaining) ==
    [op |-> name, threw |-> message, completed |-> completed,
     notified |-> notified, wasActive |-> active, waveBefore |-> wave,
     spawnedBefore |-> spawned, remainingBefore |-> remaining]

SystemsCall(name, message, completed, notified) ==
    WaveCallOf(name, message, completed, notified, state.isActive,
               state.currentWave, state.enemiesSpawned,
               state.enemiesRemaining)

NotFound(n) == "Wave " \o ToString(n) \o " configuration not found"

AlreadyExists(n) == "Wave " \o ToString(n) \o " configuration already exists"

\* startSpawning(config): the timer is cleared, then the first spawnEnemy()
\* runs at once. Result: the state and the pending timer.
StartSpawning(st, enemyCount) ==
    IF st.isActive /\ st.enemiesSpawned < enemyCount
    THEN [state |-> [st EXCEPT !.enemiesSpawned = @ + 1],
          spawnTimer |-> enemyCount]
    ELSE [state |-> st, spawnTimer |-> NoTimer]

\* startNextWave(): result is the state, the pending timer and the message
\* of the error thrown, "none" if it returned.
StartNextWave(st, timer, configs) ==
    LET nextWave == st.currentWave + 1
    IN  IF nextWave \notin DOMAIN configs
        THEN [state |-> st, spawnTimer |-> timer, threw |-> NotFound(nextWave)]
        ELSE LET s == StartSpawning(
                          [currentWave |-> nextWave, enemiesSpawned |-> 0,
                           enemiesRemaining |-> configs[nextWave],
                           isActive |-> TRUE],
                          configs[nextWave])
             IN  [state |-> s.state, spawnTimer |-> s.spawnTimer,
                  threw |-> "none"]

\* handleWaveCompletion(): the timer is cleared, the wave made inactive, the
\* callback called, and the next wave started if it is configured. A
\* callback that calls stop() finds the timer cleared and the wave inactive,
\* so its stop() changes no field.
HandleWaveCompletion(st, configs) ==
    LET done == [st EXCEPT !.isActive = FALSE]
    IN  IF done.currentWave + 1 \in DOMAIN configs
        THEN StartNextWave(done, NoTimer, configs)
        ELSE [state |-> done, spawnTimer |-> NoTimer, threw |-> "none"]

\* addWaveConfig(waveNumber, config)
AddWaveConfig(n, enemyCount) ==
    /\ waveImpl = "systems"
    /\ IF n \in DOMAIN waveConfigs
       THEN /\ waveConfigs' = waveConfigs
            /\ waveCall' = SystemsCall("addWaveConfig", AlreadyExists(n),
                                       FALSE, FALSE)
                             @@ Halt(waveCall.halted, 0)
       ELSE /\ waveConfigs' =
                  [k \in DOMAIN waveConfigs \cup {n} |->
                      IF k = n THEN enemyCount ELSE waveConfigs[k]]
            /\ waveCall' = SystemsCall("addWaveConfig", "none", FALSE, FALSE)
                             @@ Halt(waveCall.halted, 0)
    /\ UNCHANGED <<waveImpl, state, onWaveComplete, spawnTimer, spawner>>
    /\ UNCHANGED exceptWaves

\* start(onWaveComplete)
Start(callback) ==
    /\ waveImpl = "systems"
    /\ IF DOMAIN waveConfigs = {}
       THEN /\ waveCall' = SystemsCall("start", "No wave configurations found",
                                       FALSE, FALSE) @@ Halt(FALSE, 0)
            /\ UNCHANGED <<state, onWaveComplete, spawnTimer>>
       ELSE LET r == StartNextWave(state, spawnTimer, waveConfigs)
            IN  /\ onWaveComplete' = callback
                /\ state' = r.state
                /\ spawnTimer' = r.spawnTimer
                /\ waveCall' = SystemsCall("start", r.threw, FALSE, FALSE)
                                 @@ Halt(FALSE, 0)
    /\ UNCHANGED <<waveImpl, waveConfigs, spawner>>
    /\ UNCHANGED exceptWaves

\* stop()
Stop ==
    /\ waveImpl = "systems"
    /\ spawnTimer' = NoTimer
    /\ state' = [state EXCEPT !.isActive = FALSE]
    /\ waveCall' = SystemsCall("stop", "none", FALSE, FALSE) @@ Halt(TRUE, 0)
    /\ UNCHANGED <<waveImpl, waveConfigs, onWaveComplete, spawner>>
    /\ UNCHANGED exceptWaves

\* onEnemyDefeated()
OnEnemyDefeated ==
    /\ waveImpl = "systems"
    /\ IF ~state.isActive
       THEN /\ waveCall' = SystemsCall("onEnemyDefeated", "none", FALSE, FALSE)
                             @@ Halt(waveCall.halted, 0)
            /\ UNCHANGED <<state, spawnTimer>>
       ELSE LET st == [state EXCEPT !.enemiesRemaining = @ - 1]
            IN  IF st.enemiesRemaining <= 0
                THEN LET r == HandleWaveCompletion(st, waveConfigs)
                     IN  /\ state' = r.state
                         /\ spawnTimer' = r.spawnTimer
                         /\ waveCall' =
                               SystemsCall("onEnemyDefeated", r.threw, TRUE,
                                           onWaveComplete # "none")
                               @@ IF onWaveComplete = "stops"
                                  THEN Halt(TRUE,
                                         IF r.state.currentWave
                                                # state.currentWave
                                         THEN r.state.enemiesSpawned
                                         ELSE 0)
                                  ELSE Halt(waveCall.halted, 0)
                ELSE /\ state' = st
                     /\ spawnTimer' = spawnTimer
                     /\ waveCall' = SystemsCall("onEnemyDefeated", "none",
                                                FALSE, FALSE)
                                      @@ Halt(waveCall.halted, 0)
    /\ UNCHANGED <<waveImpl, waveConfigs, onWaveComplete, spawner>>
    /\ UNCHANGED exceptWaves

\* The spawn timer fires: the spawnEnemy closure of startSpawning runs with
\* the configuration it captured.
SpawnTimerFires ==
    /\ waveImpl = "systems"
    /\ spawnTimer # NoTimer
    /\ LET s == StartSpawning(state, spawnTimer)
       IN  /\ state' = s.state
           /\ spawnTimer' = s.spawnTimer
           /\ waveCall' =
                 SystemsCall("spawnTimer", "none", FALSE, FALSE)
                 @@ Halt(waveCall.halted,
                         IF waveCall.halted
                         THEN s.state.enemiesSpawned - state.enemiesSpawned
                         ELSE 0)
    /\ UNCHANGED <<waveImpl, waveConfigs, onWaveComplete, spawner>>
    /\ UNCHANGED exceptWaves

(***************************************************************************)
(* WaveManager (behaviors/EnemyMovement.ts)                                *)
(***************************************************************************)
\* initializeWaveConfigs(): one wave, of five enemies.
BehaviorWaves == << 5 >>

\* i is the loop index of the spawnWave in flight, NotSpawning if none is.
NotSpawning == -1

NewSpawner ==
    [currentWave |-> 0, isSpawning |-> FALSE, enemies |-> 0,
     i |-> NotSpawning]

BehaviorsCall(name, message, completed) ==
    WaveCallOf(name, message, completed, completed, spawner.isSpawning,
               spawner.currentWave, spawner.enemies, 0) @@ Halt(FALSE, 0)

\* One turn of the loop of spawnWave, from the test of i to the await of
\* delay(spawnDelay); past the last enemy, the end of spawnWave and of
\* startNextWave.
SpawnWave(sp, i, enemyCount) ==
    IF i < enemyCount
    THEN [sp EXCEPT !.enemies = @ + 1, !.i = i]
    ELSE [sp EXCEPT !.isSpawning = FALSE, !.i = NotSpawning]

\* startNextWave(), up to its first timer
StartNextWaveAsync ==
    /\ waveImpl = "behaviors"
    /\ spawner.isSpawning \/ spawner.currentWave < MaxWaves
    /\ IF spawner.isSpawning
       THEN /\ spawner' = spawner
            /\ waveCall' = BehaviorsCall("startNextWave", "none", FALSE)
       ELSE LET sp == [spawner EXCEPT !.currentWave = @ + 1,
                                      !.isSpawning = TRUE]
            IN  IF sp.currentWave > Len(BehaviorWaves)
                THEN \* the error is caught and logged
                     /\ spawner' = [sp EXCEPT !.isSpawning = FALSE]
                     /\ waveCall' = BehaviorsCall("startNextWave", "none",
                                                  FALSE)
                ELSE /\ spawner' =
                          SpawnWave(sp, 0, BehaviorWaves[sp.currentWave])
                     /\ waveCall' = BehaviorsCall("startNextWave", "none",
                                         BehaviorWaves[sp.currentWave] <= 0)
    /\ UNCHANGED <<waveImpl, waveConfigs, state, onWaveComplete, spawnTimer>>
    /\ UNCHANGED exceptWaves

\* The timer of delay(spawnDelay) fires and spawnWave goes on.
DelayElapsed ==
    /\ waveImpl = "behaviors"
    /\ spawner.i # NotSpawning
    /\ spawner' = SpawnWave(spawner, spawner.i + 1,
                            BehaviorWaves[spawner.currentWave])
    /\ waveCall' = BehaviorsCall("delay", "none",
                       spawner.i + 1 >= BehaviorWaves[spawner.currentWave])
    /\ UNCHANGED <<waveImpl, waveConfigs, state, onWaveComplete, spawnTimer>>
    /\ UNCHANGED exceptWaves

\* 'enemyDestroyed' is emitted for an enemy the manager holds: removeEnemy
EnemyDestroyed ==
    /\ waveImpl = "behaviors"
    /\ spawner.enemies > 0
    /\ spawner' = [spawner EXCEPT !.enemies = @ - 1]
    /\ waveCall' = BehaviorsCall("enemyDestroyed", "none", FALSE)
    /\ UNCHANGED <<waveImpl, waveConfigs, state, onWaveComplete, spawnTimer>>
    /\ UNCHANGED exceptWaves

(***************************************************************************)
(* ObjectPool (tests/EnemyMovement.test.ts)                                *)
(***************************************************************************)
\* Configurations with every option given.
PoolConfigs ==
    [initialSize : -1..MaxPoolSize, maxSize : -1..MaxPoolSize,
     autoExpand : BOOLEAN]

\* Sizes asked of resize().
NewSizes == -1..(MaxPoolSize + 1)

\* Objects are numbered in the order the factory makes them; 0 is null.
Releasable == 0..MaxObjects

SmallestConfig == [initialSize |-> 0, maxSize |-> 0, autoExpand |-> FALSE]

PoolCallOf(name, message, before, arg, returned, wasHeld) ==
    [op |-> name, threw |-> message, before |-> before, arg |-> arg,
     returned |-> returned, wasHeld |-> wasHeld]

NoPoolCall == PoolCallOf("new", "none", <<>>, 0, 0, FALSE)

\* validateConfig(): the message of the error thrown, "none" if it returned
ValidateConfig(c) ==
    IF c.initialSize < 0
    THEN "Initial size cannot be negative"
    ELSE IF c.maxSize < c.initialSize
         THEN "Max size cannot be less than initial size"
         ELSE "none"

\* initialize(): initialSize objects of the factory
Initialize(c) == [i \in 1..c.initialSize |-> i]

\* canExpand()
CanExpand(p, c) == c.autoExpand /\ Len(p) < c.maxSize

\* release() past its null check, with the capacity test left out
ReleaseIntoAnyPool(p, c, object) == Append(p, object)

\* release() past its null check: the object is reset, and pushed if the pool
\* is below maxSize
ReleaseInto(p, c, object) ==
    IF Len(p) < c.maxSize THEN Append(p, object) ELSE p

\* acquire() of an empty pool that has made n objects: what it returns (0 if
\* nothing) and the message of the error thrown
AcquireEmpty(c, n) ==
    IF CanExpand(<<>>, c)
    THEN [returned |-> n + 1, threw |-> "none"]
    ELSE [returned |-> 0,
          threw |-> "Object pool is empty and cannot expand"]

\* The two loops of resize(); n is the number of objects made so far
RECURSIVE Shrink(_, _)
Shrink(p, newSize) ==
    IF Len(p) > newSize THEN Shrink(SubSeq(p, 1, Len(p) - 1), newSize) ELSE p

RECURSIVE Grow(_, _, _)
Grow(p, newSize, n) ==
    IF Len(p) < newSize THEN Grow(Append(p, n + 1), newSize, n + 1) ELSE p

\* new ObjectPool(factory, c): a constructor that throws leaves the caller
\* with the pool it had; a new pool has its own objects and no holder yet
Construct(c) ==
    /\ c.initialSize <= MaxObjects
    /\ IF ValidateConfig(c) # "none"
       THEN UNCHANGED <<pool, config, held, made>>
       ELSE /\ config' = c
            /\ pool' = Initialize(c)
            /\ held' = {}
            /\ made' = c.initialSize
    /\ poolCall' = PoolCallOf("new", ValidateConfig(c), pool, 0, 0, FALSE)
    /\ UNCHANGED exceptPool

\* acquire(): the caller holds what it returns
Acquire ==
    /\ IF Len(pool) = 0
       THEN LET r == AcquireEmpty(config, made)
            IN  /\ r.returned <= MaxObjects
                /\ pool' = pool
                /\ made' = IF r.returned = 0 THEN made ELSE r.returned
                /\ held' = IF r.returned = 0 THEN held
                           ELSE held \cup {r.returned}
                /\ poolCall' = PoolCallOf("acquire", r.threw, pool, 0,
                                          r.returned, FALSE)
       ELSE /\ pool' = SubSeq(pool, 1, Len(pool) - 1)
            /\ made' = made
            /\ held' = held \cup {pool[Len(pool)]}
            /\ poolCall' = PoolCallOf("acquire", "none", pool, 0,
                                      pool[Len(pool)],
                                      pool[Len(pool)] \in held)
    /\ UNCHANGED config
    /\ UNCHANGED exceptPool

\* release(object), of any object the factory has made: the caller gives the
\* object up, whether or not it held it
Release(object) ==
    /\ object <= made
    /\ IF object = 0
       THEN /\ pool' = pool
            /\ held' = held
            /\ poolCall' =
                  PoolCallOf("release",
                             "Cannot release null or undefined object",
                             pool, object, 0, FALSE)
       ELSE /\ pool' = ReleaseInto(pool, config, object)
            /\ held' = held \ {object}
            /\ poolCall' = PoolCallOf("release", "none", pool, object, 0,
                                      object \in held)
    /\ UNCHANGED <<config, made>>
    /\ UNCHANGED exceptPool

\* clear()
ClearPool ==
    /\ pool' = <<>>
    /\ poolCall' = PoolCallOf("clear", "none", pool, 0, 0, FALSE)
    /\ UNCHANGED <<config, held, made>>
    /\ UNCHANGED exceptPool

\* resize(newSize)
Resize(newSize) ==
    /\ IF newSize < 0
       THEN /\ UNCHANGED <<pool, made>>
            /\ poolCall' = PoolCallOf("resize", "New size cannot be negative",
                                      pool, newSize, 0, FALSE)
       ELSE IF newSize > config.maxSize
            THEN /\ UNCHANGED <<pool, made>>
                 /\ poolCall' =
                       PoolCallOf("resize",
                                  "New size cannot exceed maximum pool size",
                                  pool, newSize, 0, FALSE)
            ELSE /\ made + Max(newSize - Len(pool), 0) <= MaxObjects
                 /\ pool' = Grow(Shrink(pool, newSize), newSize, made)
                 /\ made' = made + Max(newSize - Len(pool), 0)
                 /\ poolCall' = PoolCallOf("resize", "none", pool, newSize,
                                           0, FALSE)
    /\ UNCHANGED <<config, held>>
    /\ UNCHANGED exceptPool

(***************************************************************************)
(* ScoreManager (managers/ScoreManager.ts)                                 *)
(***************************************************************************)
\* Configurations: the default range from 0 and a range from 1, each with
\* MaxScore for maxScore (the default MAX_SAFE_INTEGER is out of reach).
ScoreConfigs ==
    [initialScore : {1}, minScore : {0, 1}, maxScore : {MaxScore}]

DefaultScoreConfig == [initialScore |-> 1, minScore |-> 0, maxScore |-> MaxScore]

\* Finite arguments of addPoints and deductPoints, and NaN.
Points ==
    {[finite |-> TRUE, value |-> v] : v \in (0 - MaxPoints)..MaxPoints}
        \cup {[finite |-> FALSE, value |-> 0]}

\* Scores the model follows: the range and MaxPoints on either side of it.
Scores == (0 - MaxPoints)..(MaxScore + MaxPoints)

ScoreCallOf(name, message, emitted) ==
    [op |-> name, threw |-> message, emitted |-> emitted,
     scoreBefore |-> currentScore, historyBefore |-> scoreHistory]

NoScoreCall ==
    [op |-> "new", threw |-> "none", emitted |-> FALSE, scoreBefore |-> 0,
     historyBefore |-> <<>>]

\* Number.isFinite(points)
IsFinite(points) == points.finite

WouldExceed(points, maxScore) ==
    "Adding " \o ToString(points) \o
    " points would exceed maximum score of " \o ToString(maxScore)

WouldGoBelow(points, minScore) ==
    "Deducting " \o ToString(points) \o
    " points would go below minimum score of " \o ToString(minScore)

\* updateScore(newScore, pointsDifference): the score is set, the entry
\* pushed and 'scoreUpdate' emitted
UpdateScore(name, newScore, pointsDifference) ==
    /\ currentScore' = newScore
    /\ scoreHistory' = Append(scoreHistory, pointsDifference)
    /\ scoreCall' = ScoreCallOf(name, "none", TRUE)

\* A call that throws.
ScoreThrows(name, message) ==
    /\ scoreCall' = ScoreCallOf(name, message, FALSE)
    /\ UNCHANGED <<currentScore, scoreHistory>>

\* addPoints(points)
AddPoints(points) ==
    /\ Len(scoreHistory) < MaxHistory
    /\ IF ~IsFinite(points)
       THEN ScoreThrows("addPoints", "Points must be a finite number")
       ELSE /\ currentScore + points.value \in Scores
            /\ IF currentScore + points.value > scoreConfig.maxScore
               THEN ScoreThrows("addPoints",
                        WouldExceed(points.value, scoreConfig.maxScore))
               ELSE UpdateScore("addPoints", currentScore + points.value,
                                points.value)
    /\ UNCHANGED scoreConfig
    /\ UNCHANGED exceptScore

\* deductPoints(points)
DeductPoints(points) ==
    /\ Len(scoreHistory) < MaxHistory
    /\ IF ~IsFinite(points)
       THEN ScoreThrows("deductPoints", "Points must be a finite number")
       ELSE /\ currentScore - points.value \in Scores
            /\ IF currentScore - points.value < scoreConfig.minScore
               THEN ScoreThrows("deductPoints",
                        WouldGoBelow(points.value, scoreConfig.minScore))
               ELSE UpdateScore("deductPoints", currentScore - points.value,
                                0 - points.value)
    /\ UNCHANGED scoreConfig
    /\ UNCHANGED exceptScore

\* reset()
ResetScore ==
    /\ currentScore' = scoreConfig.initialScore
    /\ scoreHistory' = <<>>
    /\ scoreCall' = ScoreCallOf("reset", "none", TRUE)
    /\ UNCHANGED scoreConfig
    /\ UNCHANGED exceptScore

(***************************************************************************)
(* Initial states                                                          *)
(***************************************************************************)
\* One instance of one of the three loop classes, freshly built.
InitLoop ==
    /\ impl \in Impls
    /\ sinceLast = 0
    /\ accumulator = 0
    /\ running = FALSE
    /\ isPaused = FALSE
    /\ rafId = "null"
    /\ rafPending = FALSE
    /\ maxDeltaTime \in (IF impl = "timer" THEN {MAX_DELTA_TIME, LongMaxDelta}
                         ELSE {MAX_DELTA_TIME})
    /\ op = "init"
    /\ startResult = "none"
    /\ frame = NoFrame
    /\ faulted = FALSE
    /\ balance = 0
    /\ totalThrown = 0
    /\ orphans = 0
    /\ stops = 0
    /\ halted = FALSE

\* new Quadtree(RootBoundary)
InitTree ==
    /\ tree \in {NewNode(b, 0) : b \in RootBoundaries}
    /\ items = <<>>
    /\ insertThrew = FALSE
    /\ query = 0
    /\ retrieved = <<>>
    /\ cleared = FALSE

\* Two boxes about to be checked.
InitCollision ==
    /\ boxA \in CollisionBoxes
    /\ boxB \in CollisionBoxes
    /\ result = {}

\* The parts a specification leaves alone.
IdleLoop == InitLoop /\ impl = "engine"

IdleTree == InitTree /\ tree.boundary = RootBoundary

IdleCollision ==
    /\ boxA = NewBox(0, 0, 0, 0)
    /\ boxB = NewBox(0, 0, 0, 0)
    /\ result = {}

\* new EntityManager(width, height)
InitEntities ==
    /\ entities = <<>>
    /\ quadTree = NoEntries
    /\ lastFrameTime = 0
    /\ emOp = "init"
    /\ invoked = <<>>
    /\ atStart = <<>>
    /\ entriesBefore = NoEntries

\* CollisionSystem.getInstance(), no group yet
InitGroups ==
    /\ collisionGroups = NoGroups
    /\ groupOp = "init"
    /\ groupArgs = <<>>
    /\ groupResult = <<>>
    /\ groupThrew = FALSE

\* new WaveManager() of systems/WaveManager.ts, or
\* new WaveManager(spawnPoint, eventEmitter) of behaviors/EnemyMovement.ts
InitWaves ==
    /\ waveImpl \in WaveImpls
    /\ waveConfigs = NoConfigs
    /\ state = NewWaveState
    /\ onWaveComplete = "none"
    /\ spawnTimer = NoTimer
    /\ spawner = NewSpawner
    /\ waveCall = NoWaveCall

IdleWaves == InitWaves /\ waveImpl = "systems"

\* new ObjectPool(factory, config) that returned
InitPool ==
    /\ config \in {c \in PoolConfigs : ValidateConfig(c) = "none"}
    /\ config.initialSize <= MaxObjects
    /\ pool = Initialize(config)
    /\ held = {}
    /\ made = config.initialSize
    /\ poolCall = NoPoolCall

IdlePool == InitPool /\ config = SmallestConfig

\* new ScoreManager(config)
InitScore ==
    /\ scoreConfig \in ScoreConfigs
    /\ currentScore = scoreConfig.initialScore
    /\ scoreHistory = <<>>
    /\ scoreCall = NoScoreCall

IdleScore == InitScore /\ scoreConfig = DefaultScoreConfig

IdleRest == IdleWaves /\ IdlePool /\ IdleScore

\* Everything but the component a specification is about.
IdleButLoop ==
    IdleTree /\ IdleCollision /\ InitEntities /\ InitGroups /\ IdleRest
IdleButTree ==
    IdleLoop /\ IdleCollision /\ InitEntities /\ InitGroups /\ IdleRest
IdleButCollision ==
    IdleLoop /\ IdleTree /\ InitEntities /\ InitGroups /\ IdleRest
IdleButEntities ==
    IdleLoop /\ IdleTree /\ IdleCollision /\ InitGroups /\ IdleRest
IdleButGroups ==
    IdleLoop /\ IdleTree /\ IdleCollision /\ InitEntities /\ IdleRest
IdleButWaves ==
    /\ IdleLoop /\ IdleTree /\ IdleCollision /\ InitEntities /\ InitGroups
    /\ IdlePool /\ IdleScore
IdleButPool ==
    /\ IdleLoop /\ IdleTree /\ IdleCollision /\ InitEntities /\ InitGroups
    /\ IdleWaves /\ IdleScore

IdleButScore ==
    /\ IdleLoop /\ IdleTree /\ IdleCollision /\ InitEntities /\ InitGroups
    /\ IdleWaves /\ IdlePool

NextLoop ==
    \/ \E d \in 1..MaxElapse : Elapse(d)
    \/ EngineStart
    \/ EngineStop
    \/ \E k \in 0..MaxThrowAt, r \in BOOLEAN :
           EngineLoop(k, r)
    \/ SystemsStart
    \/ SystemsStop
    \/ \E k \in 0..MaxThrowAt, r \in BOOLEAN :
           SystemsTick(k, r)
    \/ TimerStart
    \/ TimerStop
    \/ TimerPause
    \/ TimerResume
    \/ TimerTick

\* The loops with callbacks that call stop() and start() on their loop.
NextCallbacks ==
    \/ \E n \in 1..MaxStallSteps : ElapseSteps(n)
    \/ EngineStart
    \/ EngineStop
    \/ \E f \in Requests, k \in 0..MaxThrowAt, r \in BOOLEAN,
          c \in 0..MaxThrowAt, w \in CallbackCalls :
           EngineLoopCalling(f, k, r, c, w)
    \/ SystemsStart
    \/ SystemsStop
    \/ \E f \in Requests, k \in 0..MaxThrowAt, r \in BOOLEAN,
          c \in 0..MaxThrowAt, w \in CallbackCalls :
           SystemsTickCalling(f, k, r, c, w)
    \/ TimerStart
    \/ TimerStop
    \/ TimerPause
    \/ TimerResume
    \/ TimerTick

NextQuadtree ==
    \/ \E b \in Repeated : QInsert(b)
    \/ \E q \in Repeated : QRetrieve(q)
    \/ QClear

\* The quadtree filled with pairwise disjoint objects.
NextDisjoint ==
    \/ \E b \in Tiles : QInsertDisjoint(b)
    \/ QClear

\* The quadtree rebuilt after clear(), degenerate objects among the inserts:
\* the corner object and the top-right object of Shapes (the second and the
\* fourth) and those of Degenerate.
Rebuilt == {2, 4} \cup Rejected

NextRebuild ==
    \/ \E b \in Rebuilt : QInsert(b)
    \/ QClear

NextCollision == DoCheckCollision

\* The loops.
Init == InitLoop /\ IdleButLoop

Spec == Init /\ [][NextLoop]_vars

SpecCallbacks == Init /\ [][NextCallbacks]_vars

\* The quadtree.
InitQuadtree == InitTree /\ IdleButTree

SpecQuadtree == InitQuadtree /\ [][NextQuadtree]_vars

SpecDisjoint == InitQuadtree /\ [][NextDisjoint]_vars

SpecRebuild == InitQuadtree /\ [][NextRebuild]_vars

\* The narrow-phase test.
InitCheckCollision == InitCollision /\ IdleButCollision

SpecCollision == InitCheckCollision /\ [][NextCollision]_vars

\* The entity manager.
FrameTimes == {TARGET_FRAME_TIME, TARGET_FRAME_TIME + 1}

NextEntities ==
    \/ \E id \in EntityIds, a \in BOOLEAN : AddEntity(id, a)
    \/ \E id \in EntityIds : RemoveEntity(id)
    \/ \E id \in EntityIds, a \in BOOLEAN : SetActive(id, a)
    \/ \E t \in SUBSET EntityIds, x \in SUBSET EntityIds, m \in FrameTimes :
           Update(t, x, m)

InitEntityManager == InitEntities /\ IdleButEntities

SpecEntities == InitEntityManager /\ [][NextEntities]_vars

\* The collision groups.
NextGroups ==
    \/ \E g \in GroupIds, m \in Members : AddToCollisionGroup(g, m)
    \/ \E g \in GroupIds, m \in Members : RemoveFromCollisionGroup(g, m)
    \/ ClearCollisionGroups
    \/ \E gA \in GroupIds, gB \in GroupIds : CheckGroupCollisions(gA, gB)

InitCollisionGroups == InitGroups /\ IdleButGroups

\* Boxes that fail validation among the arguments of checkCollision and the
\* members of two groups.
RejectBoxes == {NewBox(0, 0, 2, 2), NewBox(0, 0, -1, 2), NewBox(1, 1, 2, -1)}

RejectGroups == {"projectiles", "enemies"}

\* The first two objects of GroupBoxes and the one of negative width.
RejectMembers == {1, 2, Len(GroupBoxes)}

NextRejects ==
    \/ DoCheckCollision
    \/ \E g \in RejectGroups, m \in RejectMembers : AddToCollisionGroup(g, m)
    \/ \E g \in RejectGroups, m \in RejectMembers :
           RemoveFromCollisionGroup(g, m)
    \/ ClearCollisionGroups
    \/ \E gA \in RejectGroups, gB \in RejectGroups :
           CheckGroupCollisions(gA, gB)

InitRejects ==
    /\ boxA \in RejectBoxes
    /\ boxB \in RejectBoxes
    /\ result = {}
    /\ InitGroups
    /\ IdleLoop /\ IdleTree /\ InitEntities /\ IdleRest

SpecRejects == InitRejects /\ [][NextRejects]_vars

SpecGroups == InitCollisionGroups /\ [][NextGroups]_vars

NextWaves ==
    \/ \E n \in WaveNumbers, enemyCount \in EnemyCounts :
           AddWaveConfig(n, enemyCount)
    \/ \E callback \in Callbacks : Start(callback)
    \/ Stop
    \/ OnEnemyDefeated
    \/ SpawnTimerFires
    \/ StartNextWaveAsync
    \/ DelayElapsed
    \/ EnemyDestroyed

InitWaveManager == InitWaves /\ IdleButWaves

SpecWaves == InitWaveManager /\ [][NextWaves]_vars

NextPool ==
    \/ \E c \in PoolConfigs : Construct(c)
    \/ Acquire
    \/ \E object \in Releasable : Release(object)
    \/ ClearPool
    \/ \E newSize \in NewSizes : Resize(newSize)

InitObjectPool == InitPool /\ IdleButPool

SpecPool == InitObjectPool /\ [][NextPool]_vars

NextScore ==
    \/ \E points \in Points : AddPoints(points)
    \/ \E points \in Points : DeductPoints(points)
    \/ ResetScore

InitScoreManager == InitScore /\ IdleButScore

SpecScore == InitScoreManager /\ [][NextScore]_vars

(***************************************************************************)
(* Properties of the loops                                                 *)
(***************************************************************************)
\* The loop is running as its own start() sees it.
LoopRunning == IF impl = "timer" THEN rafId # "null" ELSE running

\* The fixed step of the loop under test.
StepOf(i) ==
    IF i = "engine" THEN FRAME_TIME
    ELSE IF i = "systems" THEN fixedTimeStep
    ELSE DEFAULT_FIXED_TIMESTEP

\* An interpolation factor <<numerator, denominator>> lies in [0, 1).
InUnitInterval(q) == q[2] > 0 /\ 0 <= q[1] /\ q[1] < q[2]

\* C2: once a fixed-update or render callback has thrown, the loop is
\* stopped: no callback runs after the throw, in that frame or later, and no
\* frame is scheduled, until start() is called again.
C2_ThrowStopsLoop ==
    faulted => (~running /\ ~rafPending /\ frame.after = 0)

\* C3: start() on a loop that is already running fails with an "already
\* running" error and leaves lastTime, the accumulator and the pending frame
\* unchanged.
C3_StartTwiceFails ==
    [][(op' = "start" /\ LoopRunning)
         => (/\ startResult' = "error"
             /\ sinceLast' = sinceLast
             /\ accumulator' = accumulator
             /\ rafId' = rafId
             /\ rafPending' = rafPending)]_vars

\* C4: no frame invokes the fixed-update callback more than
\* MAX_UPDATES_PER_FRAME times, whatever the delta between frames.
C4_AtMostMaxUpdates ==
    frame.calls <= MAX_UPDATES_PER_FRAME

C6_InterpolationInRange ==
    frame.rendered => InUnitInterval(frame.alpha)

C6_Witness ==
    /\ impl = "timer" /\ frame.rendered
    /\ frame.calls >= 1 /\ frame.alpha[1] = 1

\* C7: after a frame has been processed to its end the accumulator holds
\* less than one fixed step and is not negative, also when the
\* steps-per-frame cap was hit.  (A frame the engine loop abandons because
\* the update callback threw is not processed to its end.)
C7_AccumulatorDrained ==
    (~frame.skipped /\ ~(impl = "engine" /\ frame.threw = "update"))
        => (0 <= accumulator /\ accumulator < StepOf(impl))

C7_Witness ==
    /\ impl = "engine" /\ ~frame.skipped /\ frame.capped
    /\ frame.added = (MAX_UPDATES_PER_FRAME + 1) * FRAME_TIME + 1
    /\ accumulator = 0

C11_NoCallbackAfterStop ==
    frame.afterStop = 0

\* The fields of the loop object and the frame requests the host holds.
LoopFields == <<sinceLast, accumulator, running, isPaused, rafId, rafPending,
                orphans>>

\* C12 as stated: stop() on a loop that is stopped or was never started
\* changes no state, and neither does a stop() that follows a stop().
C12_StopOnStoppedChangesNothing ==
    [][(op' = "stop" /\ (~LoopRunning \/ stops >= 1))
         => UNCHANGED LoopFields]_vars

\* C12 as amended: a stop() that directly follows a stop() changes no
\* state, so two consecutive stop() calls leave the loop as one does.  (The
\* first stop() on a stopped Timer does change state: it sets isPaused.)
C12_StopTwiceIsStopOnce ==
    [][(op' = "stop" /\ stops >= 1) => UNCHANGED LoopFields]_vars

C12_Witness ==
    /\ impl = "timer" /\ op = "stop" /\ stops = 2
    /\ isPaused /\ rafId = "null" /\ ~rafPending /\ accumulator = 0

\* C13: right after a frame in which a fixed-update callback threw the loop
\* is stopped with no frame scheduled; a stop() then changes nothing, and a
\* start() then succeeds and leaves the loop running with exactly one frame
\* scheduled.
C13_RecoverAfterThrow ==
    [][(op = "frame" /\ frame.threw = "update")
         => (/\ ~LoopRunning
             /\ Pending = 0
             /\ op' = "stop" => UNCHANGED LoopFields
             /\ op' = "start" => (/\ startResult' = "ok"
                                  /\ LoopRunning'
                                  /\ Pending' = 1))]_vars

\* C14: no tick begins while another tick of the same loop is executing,
\* whatever the callbacks call.
C14_NoReentrantTick ==
    frame.nested = 0

(***************************************************************************)
(* Properties of the quadtree and of the narrow-phase test                 *)
(***************************************************************************)
\* The strict AABB overlap test of the specification.
Overlaps(a, b) ==
    /\ a.x < b.x + b.width
    /\ a.x + a.width > b.x
    /\ a.y < b.y + b.height
    /\ a.y + a.height > b.y

\* The object with this id is in the list.
HasId(objects, id) == \E k \in 1..Len(objects) : objects[k].id = id

\* The n-th object inserted since the last clear.
Inserted(n) == NewObject(n, items[n])

\* C1: retrieve(q) returns every inserted item whose box overlaps q under
\* the strict AABB test.
C1_RetrieveSuperset ==
    query # 0 =>
        \A n \in 1..Len(items) :
            Overlaps(Inserted(n), Boxes[query]) => HasId(retrieved, n)

\* C9: insert on a node that is already split stores the item in every
\* child whose boundary the item overlaps, and the item is in the tree when
\* insert returns.
C9_InsertRoutesToChildren ==
    [][(Len(items') = Len(items) + 1 /\ tree.nodes # <<>>)
         => LET o == NewObject(Len(items'), items'[Len(items')])
            IN  /\ HasId(Stored(tree'), o.id)
                /\ \A c \in 1..4 :
                       Overlaps(o, tree.nodes[c].boundary)
                           => HasId(Stored(tree'.nodes[c]), o.id)]_vars

\* Every node of the tree below and including a node.
RECURSIVE NodesOf(_)
NodesOf(node) ==
    {node} \cup UNION {NodesOf(node.nodes[k]) : k \in 1..Len(node.nodes)}

\* Number of nodes of the tree that have been split.
SplitCount(node) == Cardinality({n \in NodesOf(node) : n.nodes # <<>>})

\* split() of this node would create children.
CanSplit(node) == Split(node).nodes # <<>>

\* The objects inserted since the last clear are pairwise disjoint.
PairwiseDisjoint ==
    \A i, j \in 1..Len(items) :
        i < j => ~Overlaps(Boxes[items[i]], Boxes[items[j]])

\* The root has the four quadrants of {0, 0, 100, 100} as children, child i
\* of the source at position i + 1, all at level 1.
RootQuadrants ==
    /\ Len(tree.nodes) = 4
    /\ tree.nodes[1].boundary = NewBox(50, 0, 50, 50)
    /\ tree.nodes[2].boundary = NewBox(0, 0, 50, 50)
    /\ tree.nodes[3].boundary = NewBox(0, 50, 50, 50)
    /\ tree.nodes[4].boundary = NewBox(50, 50, 50, 50)
    /\ \A c \in 1..4 : tree.nodes[c].level = 1

\* All objects of the tree went to one child of the root.
AllInOneQuadrant ==
    \E c \in 1..Len(tree.nodes) :
        \A n \in 1..Len(items) : HasId(Stored(tree.nodes[c]), n)

\* C15 as stated: MAX_OBJECTS + 1 pairwise disjoint objects inserted into
\* an empty root {0, 0, 100, 100} cause exactly one split in the whole tree,
\* and the root's children are its four quadrants.
C15_ExactlyOneSplit ==
    (tree.boundary = RootBoundary /\ Len(items) = MAX_OBJECTS + 1
     /\ PairwiseDisjoint)
        => (SplitCount(tree) = 1 /\ RootQuadrants)

\* C15 as amended: the root is split into its four quadrants, and it is the
\* only node split unless all the objects lie in one quadrant, in which
\* case that child is split as well.
C15_RootSplitsIntoQuadrants ==
    (tree.boundary = RootBoundary /\ Len(items) = MAX_OBJECTS + 1
     /\ PairwiseDisjoint)
        => (/\ RootQuadrants
            /\ ~AllInOneQuadrant => SplitCount(tree) = 1
            /\ AllInOneQuadrant => SplitCount(tree) >= 2)

C15_Witness ==
    /\ tree.boundary = RootBoundary /\ Len(items) = MAX_OBJECTS + 1
    /\ PairwiseDisjoint
    /\ ~AllInOneQuadrant /\ SplitCount(tree) = 1
    /\ Len(tree.objects) = 1
    /\ Len(tree.nodes[1].objects) = 1 /\ Len(tree.nodes[3].objects) = 1

\* C16: a root whose quadrants would be smaller than MIN_SIZE does not
\* split: every insert completes without error, the root has no children
\* and holds every object inserted.
C16_RefusedSplitKeepsLeaf ==
    ~CanSplit(tree)
        => (/\ ~insertThrew
            /\ tree.nodes = <<>>
            /\ \A n \in 1..Len(items) : HasId(tree.objects, n))

\* C17: every node has level <= MAX_LEVELS and no or exactly four children,
\* and a leaf that may still split (level < MAX_LEVELS and quadrants of at
\* least MIN_SIZE) holds at most MAX_OBJECTS objects.
C17_TreeShape ==
    \A n \in NodesOf(tree) :
        /\ n.level <= MAX_LEVELS
        /\ Len(n.nodes) \in {0, 4}
        /\ (n.nodes = <<>> /\ n.level < MAX_LEVELS /\ CanSplit(n))
               => Len(n.objects) <= MAX_OBJECTS

C17_Witness ==
    \E n \in NodesOf(tree) :
        /\ n.level = MAX_LEVELS
        /\ CanSplit(n)
        /\ Len(n.objects) > MAX_OBJECTS

(***************************************************************************)
(* Properties of the entity manager                                        *)
(***************************************************************************)
\* The entity was registered and active when the last update() began.
ActiveAtStart(id) ==
    \E i \in 1..Len(atStart) : atStart[i].id = id /\ atStart[i].isActive

\* The entity was registered but inactive when the last update() began.
InactiveAtStart(id) ==
    \E i \in 1..Len(atStart) : atStart[i].id = id /\ ~atStart[i].isActive

\* The entity had been removed when the last update() began, its entry of
\* addEntity still in the tree.
RemovedAtStart(id) == ~Registered(atStart, id) /\ entriesBefore[id] > 0

\* Update steps of the entity invoked by the last update().
Invocations(id) == Cardinality({k \in 1..Len(invoked) : invoked[k].id = id})

\* C18: after update() the tree holds an entry for exactly the entities
\* that were registered and active when the call began.
C18_IndexRebuilt ==
    emOp = "update"
        => \A id \in EntityIds : (quadTree[id] > 0) <=> ActiveAtStart(id)

C18_Witness ==
    /\ emOp = "update"
    /\ \E a, b, c \in EntityIds :
           /\ ActiveAtStart(a) /\ quadTree[a] > 0
           /\ InactiveAtStart(b) /\ entriesBefore[b] > 0 /\ quadTree[b] = 0
           /\ RemovedAtStart(c) /\ quadTree[c] = 0

Returned(a, b) ==
    Cardinality({k \in 1..Len(groupResult) : groupResult[k] = <<a, b>>})

\* The object is a member of the group, which exists.
InGroup(g, m) ==
    g \in DOMAIN collisionGroups /\ IsMember(collisionGroups[g], m)

\* C20: checkGroupCollisions(gA, gB) returns each pair of a member of gA
\* and a member of gB that checkCollision reports as colliding exactly once
\* and nothing else, and the empty list when a group does not exist.
C20_GroupPairs ==
    groupOp = "checkGroupCollisions"
        => LET gA == groupArgs[1]
               gB == groupArgs[2]
           IN  /\ (gA \notin DOMAIN collisionGroups
                    \/ gB \notin DOMAIN collisionGroups)
                      => groupResult = <<>>
               /\ \A a, b \in Members :
                      Returned(a, b) =
                         (IF /\ InGroup(gA, a) /\ InGroup(gB, b)
                             /\ CheckCollision(GroupBoxes[a],
                                               GroupBoxes[b]).hasCollision
                          THEN 1 ELSE 0)

C20_Witness ==
    /\ groupOp = "checkGroupCollisions"
    /\ groupArgs[1] # groupArgs[2]
    /\ Len(groupResult) = 1
    /\ Len(collisionGroups[groupArgs[1]]) + Len(collisionGroups[groupArgs[2]]) = 3
    /\ \E g \in DOMAIN collisionGroups, a, c \in Members :
           /\ g \notin {groupArgs[1], groupArgs[2]}
           /\ InGroup(groupArgs[1], a) /\ InGroup(g, c)
           /\ ~InGroup(groupArgs[2], c)
           /\ CheckCollision(GroupBoxes[a], GroupBoxes[c]).hasCollision

\* C21: no pair returned by checkGroupCollisions has the same object as
\* both of its elements.
C21_NoSelfPair ==
    \A k \in 1..Len(groupResult) : groupResult[k][1] # groupResult[k][2]

\* C10: checkCollision reports a collision exactly when the strict AABB
\* inequalities hold, so boxes that only touch do not collide.
C10_StrictAABB ==
    \A r \in result :
        ~r.threw /\ (r.hasCollision <=> Overlaps(boxA, boxB))

C10_Witness ==
    /\ result # {}
    /\ boxA.width > 0 /\ boxA.height > 0 /\ boxB.width > 0 /\ boxB.height > 0
    /\ boxA.x + boxA.width = boxB.x
    /\ boxA.y = boxB.y
    /\ \A r \in result : ~r.hasCollision

\* A box without extent on one axis.
ZeroSize(box) == box.width = 0 \/ box.height = 0

\* C22: checkCollision reports no collision whenever one of the boxes has
\* width 0 or height 0.
C22_ZeroSizeNeverCollides ==
    (ZeroSize(boxA) \/ ZeroSize(boxB))
        => \A r \in result : ~r.threw /\ ~r.hasCollision

\* C23: a reported collision carries, on each axis, the smaller of the two
\* distances between opposite edges, {5, 5} for the reference boxes; without
\* a collision no overlap is reported.
C23_OverlapAmounts ==
    \A r \in result :
        /\ ~r.threw
        /\ r.hasCollision
              => /\ r.overlap.x <= boxA.x + boxA.width - boxB.x
                 /\ r.overlap.x <= boxB.x + boxB.width - boxA.x
                 /\ r.overlap.x \in {boxA.x + boxA.width - boxB.x,
                                     boxB.x + boxB.width - boxA.x}
                 /\ r.overlap.y <= boxA.y + boxA.height - boxB.y
                 /\ r.overlap.y <= boxB.y + boxB.height - boxA.y
                 /\ r.overlap.y \in {boxA.y + boxA.height - boxB.y,
                                     boxB.y + boxB.height - boxA.y}
        /\ ~r.hasCollision => DOMAIN r = {"threw", "hasCollision"}
        /\ (boxA = ExampleA /\ boxB = ExampleB)
              => r.hasCollision /\ r.overlap = [x |-> 5, y |-> 5]

C23_Witness ==
    /\ boxA = ExampleA /\ boxB = ExampleB
    /\ result = {[threw |-> FALSE, hasCollision |-> TRUE,
                  overlap |-> [x |-> 5, y |-> 5]]}

\* An object of non-positive width or height.
IsDegenerate(box) == box.width <= 0 \/ box.height <= 0

\* C24: a boundary of non-positive width or height is refused by the
\* constructor, and insert() of an object of non-positive width or height
\* throws and leaves the tree as it was.
C24_DegenerateRejected ==
    /\ \A b \in Rejected : ~IsValidBoundary(Boxes[b])
    /\ [][\A b \in Rejected :
             items' = Append(items, b) => (insertThrew' /\ tree' = tree)]_vars

\* The tree a freshly constructed Quadtree of the boundary becomes by the
\* inserts of the sequence seq from the k-th on, the n-th object numbered n.
RECURSIVE Replay(_, _, _)
Replay(node, seq, k) ==
    IF k > Len(seq) THEN node
    ELSE Replay(Insert(node, NewObject(k, seq[k])).node, seq, k + 1)

\* C27: after clear() the tree is a single leaf without objects and
\* children, and the inserts that follow leave it in the state of a new
\* tree of the same boundary that received the same inserts.
C27_ClearedIsFresh ==
    cleared => /\ items = <<>> => tree = NewNode(tree.boundary, 0)
               /\ tree = Replay(NewNode(tree.boundary, 0), items, 1)

C27_Witness ==
    /\ cleared
    /\ tree.nodes # <<>>
    /\ Len(items) > MAX_OBJECTS
    /\ tree = Replay(NewNode(tree.boundary, 0), items, 1)

\* A box of negative width or height.
NegativeSize(box) == box.width < 0 \/ box.height < 0

\* A member of the group has a negative width or height.
HasInvalid(g) ==
    \E k \in 1..Len(collisionGroups[g]) :
        NegativeSize(GroupBoxes[collisionGroups[g][k]])

\* The last checkGroupCollisions handed a box that fails validation to
\* checkCollision: both groups have members and one of them is invalid.
ReachedInvalid ==
    /\ groupOp = "checkGroupCollisions"
    /\ groupArgs[1] \in DOMAIN collisionGroups
    /\ groupArgs[2] \in DOMAIN collisionGroups
    /\ collisionGroups[groupArgs[1]] # <<>>
    /\ collisionGroups[groupArgs[2]] # <<>>
    /\ HasInvalid(groupArgs[1]) \/ HasInvalid(groupArgs[2])

\* C25: checkCollision throws and returns nothing when a box has a negative
\* width or height, checkGroupCollisions throws with it, and the groups are
\* as they were before the call.
C25_InvalidBoxThrows ==
    /\ []((NegativeSize(boxA) \/ NegativeSize(boxB))
             => \A r \in result : r = [threw |-> TRUE])
    /\ [](ReachedInvalid => (groupThrew /\ groupResult = <<>>))
    /\ [][groupThrew' => collisionGroups' = collisionGroups]_vars

C25_Witness ==
    /\ result = {[threw |-> TRUE]}
    /\ boxA.width >= 0 /\ boxA.height >= 0 /\ boxB.height < 0
    /\ ReachedInvalid /\ groupThrew
    /\ groupArgs[1] # groupArgs[2]
    /\ \E a, b \in Members :
           /\ collisionGroups[groupArgs[1]][1] = a
           /\ collisionGroups[groupArgs[2]][1] = b
           /\ CheckCollision(GroupBoxes[a], GroupBoxes[b]).hasCollision

\* The least and the greatest delta a loop is meant to add in one frame:
\* the Timer's MIN_DELTA_TIME and maxDeltaTime, the systems loop's
\* maxDeltaTime (it names no minimum), and for the engine loop, which names
\* neither, what MAX_UPDATES_PER_FRAME steps can consume.
MinStepOf(i) == IF i = "timer" THEN MIN_DELTA_TIME ELSE 0

MaxStepOf(i) ==
    IF i = "timer" THEN maxDeltaTime
    ELSE IF i = "systems" THEN SYS_maxDeltaTime
    ELSE MAX_UPDATES_PER_FRAME * FRAME_TIME

\* C26: the delta a frame adds to the accumulator lies between the least
\* and the greatest step of its loop, whatever time has passed.
C26_DeltaClamped ==
    (op = "frame" /\ ~frame.skipped)
        => (MinStepOf(impl) <= frame.added /\ frame.added <= MaxStepOf(impl))

(***************************************************************************)
(* Properties of the WaveManager                                           *)
(***************************************************************************)
\* The last call asked for a wave to start.
StartedWave ==
    \/ waveImpl = "systems" /\ waveCall.op = "start"
    \/ waveImpl = "behaviors" /\ waveCall.op = "startNextWave"

\* The fields of the manager under test, as waveCall records them.
WaveFields ==
    IF waveImpl = "systems"
    THEN [wave |-> state.currentWave, active |-> state.isActive,
          spawned |-> state.enemiesSpawned,
          remaining |-> state.enemiesRemaining]
    ELSE [wave |-> spawner.currentWave, active |-> spawner.isSpawning,
          spawned |-> spawner.enemies, remaining |-> 0]

FieldsBefore ==
    [wave |-> waveCall.waveBefore, active |-> waveCall.wasActive,
     spawned |-> waveCall.spawnedBefore,
     remaining |-> waveCall.remainingBefore]

\* C28: a wave start made while a wave is in progress throws 'Wave already
\* in progress' and leaves the wave number, the active flag and the spawn
\* counters as they were.
C28_ConcurrentStartRejected ==
    (StartedWave /\ waveCall.wasActive) =>
        /\ waveCall.threw = "Wave already in progress"
        /\ WaveFields = FieldsBefore

\* C29: a WaveManager begins at wave 0, inactive; a wave start that returns
\* adds exactly 1 to the wave number and leaves the wave active; a call that
\* completes the wave leaves it inactive with the wave number unchanged.
C29_WaveProgression ==
    waveImpl = "systems" =>
        /\ waveCall.op = "init" =>
               (state.currentWave = 0 /\ ~state.isActive)
        /\ (waveCall.op = "start" /\ waveCall.threw = "none") =>
               /\ state.currentWave = waveCall.waveBefore + 1
               /\ state.isActive
        /\ waveCall.completed =>
               /\ ~state.isActive
               /\ state.currentWave = waveCall.waveBefore

HeldBefore ==
    IF poolCall.op = "acquire" /\ poolCall.returned # 0 /\ ~poolCall.wasHeld
    THEN held \ {poolCall.returned}
    ELSE IF poolCall.op = "release" /\ poolCall.wasHeld
         THEN held \cup {poolCall.arg}
         ELSE held

\* The objects the pool had grown to when the last call began: those
\* available and those handed out.
GrownTo == Len(poolCall.before) + Cardinality(HeldBefore)

\* C31: acquire() on an empty pool throws 'Object pool is empty and cannot
\* expand' and leaves the pool as it was whenever autoExpand is off or the
\* pool has grown to maxSize objects; any other acquire() returns an object,
\* which is then no longer available.
C31_EmptyAcquireThrows ==
    poolCall.op = "acquire" =>
        IF /\ poolCall.before = <<>>
           /\ (~config.autoExpand \/ GrownTo >= config.maxSize)
        THEN /\ poolCall.threw = "Object pool is empty and cannot expand"
             /\ poolCall.returned = 0
             /\ pool = poolCall.before
        ELSE /\ poolCall.threw = "none"
             /\ poolCall.returned # 0
             /\ Len(pool) = Max(Len(poolCall.before) - 1, 0)

\* C35: no object is in the pool twice, and acquire() returns no object
\* that a caller still holds.
C35_NoObjectShared ==
    /\ \A i, j \in 1..Len(pool) : pool[i] = pool[j] => i = j
    /\ poolCall.op = "acquire" => ~poolCall.wasHeld

(***************************************************************************)
(* Properties of the ScoreManager                                          *)
(***************************************************************************)
\* The last call was addPoints or deductPoints with a finite argument.
FiniteScoreCall ==
    /\ scoreCall.op \in {"addPoints", "deductPoints"}
    /\ scoreCall.threw # "Points must be a finite number"

InRange(score) ==
    scoreConfig.minScore <= score /\ score <= scoreConfig.maxScore

\* C32: after addPoints and deductPoints calls with finite arguments the
\* score is within [minScore, maxScore]; a call that throws leaves the score
\* and the history as they were and emits no scoreUpdate.
C32_ScoreInRange ==
    /\ FiniteScoreCall => InRange(currentScore)
    /\ (FiniteScoreCall /\ scoreCall.threw # "none") =>
           /\ currentScore = scoreCall.scoreBefore
           /\ scoreHistory = scoreCall.historyBefore
           /\ ~scoreCall.emitted

(***************************************************************************)
(* Properties of the loops, continued                                      *)
(***************************************************************************)
\* C33: the host never holds more than one frame request of a loop.
C33_OnePendingFrame == Pending <= 1

(***************************************************************************)
(* Properties of the WaveManager, continued                                *)
(***************************************************************************)
\* C34: once stop() has returned and until start() is called, no enemy is
\* spawned, and neither the spawn timer nor onEnemyDefeated() changes the
\* state or has the completion callback called.
C34_StoppedStaysStopped ==
    waveImpl = "systems" =>
        /\ waveCall.spawnedAfterStop = 0
        /\ (/\ waveCall.wasHalted
            /\ waveCall.op \in {"onEnemyDefeated", "spawnTimer"}) =>
               /\ WaveFields = FieldsBefore
               /\ ~waveCall.notified

\* The same, for managers whose completion callback does not call stop().
StoppedOutsideCallback == onWaveComplete # "stops" => C34_StoppedStaysStopped

\* Defeats counted against the active wave.
Defeats == waveConfigs[state.currentWave] - state.enemiesRemaining

\* C37: while a wave is active its defeats do not exceed its spawns and its
\* spawns do not exceed enemyCount, and a wave completes only when all of
\* its enemyCount enemies had been spawned.
C37_CompleteAfterAllSpawned ==
    waveImpl = "systems" =>
        /\ state.isActive =>
               /\ Defeats <= state.enemiesSpawned
               /\ state.enemiesSpawned <= waveConfigs[state.currentWave]
        /\ waveCall.completed =>
               waveCall.spawnedBefore = waveConfigs[waveCall.waveBefore]

\* Spawns never exceed enemyCount.
SpawnsWithinCount ==
    (waveImpl = "systems" /\ state.isActive) =>
        state.enemiesSpawned <= waveConfigs[state.currentWave]

\* A start() that succeeds after stop() has returned.
Restart == halted /\ op' = "start" /\ startResult' = "ok"

\* The accumulator a start() began with: what it left, less the time its own
\* tick added, plus the steps its own tick drained (the engine start() runs
\* no tick).
BeganWith ==
    accumulator' - frame'.added + frame'.updates * FRAME_TIME

\* C36: a start() that follows a stop() begins with the accumulator at 0.
C36_RestartFromZero == [][Restart => BeganWith = 0]_vars

\* The same for the loops other than the engine GameLoop.
RestartFromZeroElsewhere ==
    [][(impl # "engine" /\ Restart) => BeganWith = 0]_vars

\* A tick of a paused Timer emits nothing and keeps the accumulator.
PausedTickIsSilent ==
    (impl = "timer" /\ isPaused /\ op' = "frame")
        => /\ frame'.calls = 0
           /\ ~frame'.rendered
           /\ accumulator' = accumulator

\* resume() of a paused Timer restarts the measurement of time (lastTime =
\* now) and adds nothing, so the next tick measures from the resume, however
\* long the pause was.
PausedTimeIsDropped ==
    (impl = "timer" /\ isPaused /\ op' = "resume")
        => (sinceLast' = 0 /\ accumulator' = accumulator /\ ~isPaused')

\* isRunning() is false while the pause flag is set.
PausedIsNotRunning == (impl = "timer" /\ isPaused) => ~TimerIsRunning

\* C38 as stated: while the Timer is paused a tick emits no update and keeps
\* the accumulator, resume() drops the time of the pause, isRunning() is
\* false and start() fails.
C38_PausedTimer ==
    [][/\ PausedTickIsSilent
       /\ PausedTimeIsDropped
       /\ PausedIsNotRunning
       /\ (impl = "timer" /\ isPaused /\ op' = "start")
              => startResult' = "error"]_vars

\* C38 amended: the same, with start() failing while a started Timer is
\* paused (a Timer paused before start() or after stop() starts normally).
C38_StartedTimerPaused ==
    [][/\ PausedTickIsSilent
       /\ PausedTimeIsDropped
       /\ PausedIsNotRunning
       /\ (impl = "timer" /\ isPaused /\ rafId # "null" /\ op' = "start")
              => (startResult' = "error" /\ isPaused'
                  /\ accumulator' = accumulator)]_vars

\* A paused Timer has just ticked with time on the clock and in the
\* accumulator.
C38_Witness ==
    /\ impl = "timer" /\ isPaused /\ op = "frame"
    /\ sinceLast > 0 /\ accumulator > 0

\* C39: for boxes of non-negative dimensions, Quadtree.checkCollision(a, b)
\* is true exactly when CollisionSystem.checkCollision(a, b).hasCollision is.
C39_NarrowPhasesAgree ==
    \A r \in result :
        ~r.threw => (r.hasCollision <=> QuadtreeCheckCollision(boxA, boxB))

\* The boxes share no more than an edge or a corner, or one of them is
\* empty: the overlap on one axis is 0.
Touching(a, b) ==
    \/ Min(a.x + a.width - b.x, b.x + b.width - a.x) = 0
    \/ Min(a.y + a.height - b.y, b.y + b.height - a.y) = 0

\* The two tests agree on every pair of boxes that does not touch, and
\* CollisionSystem reports no collision where they differ.
NarrowPhasesAgreeUnlessTouching ==
    \A r \in result :
        ~r.threw =>
            /\ ~Touching(boxA, boxB)
                   => (r.hasCollision <=> QuadtreeCheckCollision(boxA, boxB))
            /\ r.hasCollision => QuadtreeCheckCollision(boxA, boxB)

\* An engine frame that ran its drain loop to the end.
EngineFrame ==
    impl = "engine" /\ op' = "frame" /\ ~frame'.skipped /\ frame'.threw # "update"

\* The time the frame had to drain, and what its drain loop left.
Backlog == accumulator + sinceLast
Undrained == Backlog - frame'.updates * FRAME_TIME

\* C40: the engine panics only with a whole step still undrained, and a
\* backlog of exactly MAX_UPDATES_PER_FRAME whole steps is drained without
\* panic and keeps its sub-step remainder.
C40_PanicOnlyWithBacklog ==
    [][EngineFrame =>
          /\ frame'.panics > 0 => Undrained >= FRAME_TIME
          /\ (Backlog \div FRAME_TIME = MAX_UPDATES_PER_FRAME)
                 => /\ frame'.updates = MAX_UPDATES_PER_FRAME
                    /\ frame'.panics = 0
                    /\ accumulator' = Backlog % FRAME_TIME]_vars

\* What the guard does: the panic fires exactly when the frame made
\* MAX_UPDATES_PER_FRAME updates, whatever is left.
PanicAtTheCap ==
    [][EngineFrame =>
          /\ frame'.panics > 0 <=> frame'.updates = MAX_UPDATES_PER_FRAME
          /\ frame'.panics > 0 <=> Backlog \div FRAME_TIME >= MAX_UPDATES_PER_FRAME
          /\ frame'.panics > 0 => accumulator' = 0]_vars

====
